---- MODULE Spec2Model ----
(***************************************************************************)
(* Case Lifecycle Engine of the MVOI-RATEL Situation Room backend:         *)
(*   - the atomic case reference generator (utils/helpers generateCaseRef) *)
(*   - the case record and the handlers that create, vet, schedule,        *)
(*     negotiate, revert, edit, close and delete it.                       *)
(*                                                                         *)
(* The store is modelled with plain document semantics: a field that was   *)
(* never assigned, or was assigned undefined, reads back as Undefined.     *)
(* Timestamps (new Date()) carry no control flow and are left out of the   *)
(* history and note entries.                                               *)
(***************************************************************************)
EXTENDS Integers, Sequences, FiniteSets, TLC

VARIABLES
    currentYear,            \* the wall clock's calendar year, new Date().getFullYear()
    counters,               \* the Counter collection: year -> seq, a row only for years used
    pc,                     \* generateCaseRef callers: position of each caller
    callYear,               \* generateCaseRef callers: the local currentYear
    callSeq,                \* generateCaseRef callers: the local counter.seq
    issued,                 \* the references returned so far, in order of return
    complaint,              \* the case record under test, or NoCase
    response,               \* the handler that ran last and the HTTP status it sent
    logged,                 \* whether an emitter's catch ran console.error in that handler
    trail,                  \* history: the latest run of handleSentiment calls of one
                            \* identifier that were answered 200, newest last
    inflight                \* two handler calls that run side by side: what each has
                            \* read and how far it is, and the document they started from

vars == <<currentYear, counters, pc, callYear, callSeq, issued,
          complaint, response, logged, trail, inflight>>

refVars  == <<pc, callYear, callSeq, issued>>
caseVars == <<complaint, response, logged, trail, inflight>>

-----------------------------------------------------------------------------
(* Bounds *)

FirstYear == 2025
NumYears  == 2
NumProcs  == 3
MaxIssued == 4

Years == FirstYear .. (FirstYear + NumYears - 1)
Procs == 1 .. NumProcs

Undefined == "undefined"

-----------------------------------------------------------------------------
(* Reference generator: utils/helpers.js generateCaseRef *)

\* The Counter row of a year; an absent row has no seq.
HasCounter(ctrs, y) == y \in DOMAIN ctrs

\* Variant of the update that does not add to an existing row.
findOneAndUpdateInc_NoInc(ctrs, y) ==
    [z \in DOMAIN ctrs \cup {y} |-> IF z = y THEN 1 ELSE ctrs[z]]

\* Variant of the update that adds two to an existing row.
findOneAndUpdateInc_ByTwo(ctrs, y) ==
    [z \in DOMAIN ctrs \cup {y} |->
        IF z # y THEN ctrs[z] ELSE IF HasCounter(ctrs, y) THEN ctrs[y] + 2 ELSE 1]

\* Counter.findOneAndUpdate({_id}, {$inc: {seq: 1}}, {new: true, upsert: true}):
\* the collection after the update.  The upsert creates the row from the
\* query and then applies $inc, so a fresh row holds seq = 1.
findOneAndUpdateInc(ctrs, y) ==
    [z \in DOMAIN ctrs \cup {y} |->
        IF z # y THEN ctrs[z] ELSE IF HasCounter(ctrs, y) THEN ctrs[y] + 1 ELSE 1]

\* String(n): the decimal digits of n, most significant first.
RECURSIVE String(_)
String(n) == IF n < 10 THEN <<n>> ELSE Append(String(n \div 10), n % 10)

\* s.padStart(len, '0'): s itself when it is already len long or longer.
RECURSIVE padStart(_, _)
padStart(s, len) == IF Len(s) >= len THEN s ELSE padStart(<<0>> \o s, len)

\* `C-${currentYear}-${paddedSequence}`
FormatCaseRef(y, n) == [year |-> y, digits |-> padStart(String(n), 4)]

\* A caller enters generateCaseRef and reads the clock.
ReadYear(p) ==
    /\ pc[p] = "idle"
    /\ Len(issued) + Cardinality({q \in Procs : pc[q] # "idle"}) < MaxIssued
    /\ pc' = [pc EXCEPT ![p] = "update"]
    /\ callYear' = [callYear EXCEPT ![p] = currentYear]
    /\ UNCHANGED <<currentYear, counters, callSeq, issued, caseVars>>

\* The awaited findOneAndUpdate: one atomic store operation.
IncrementCounter(p) ==
    /\ pc[p] = "update"
    /\ counters' = findOneAndUpdateInc(counters, callYear[p])
    /\ callSeq' = [callSeq EXCEPT ![p] = counters'[callYear[p]]]
    /\ pc' = [pc EXCEPT ![p] = "format"]
    /\ UNCHANGED <<currentYear, callYear, issued, caseVars>>

\* The caller pads the number and returns the reference.
ReturnRef(p) ==
    /\ pc[p] = "format"
    /\ issued' = Append(issued, [proc |-> p, year |-> callYear[p], seq |-> callSeq[p],
                                 ref |-> FormatCaseRef(callYear[p], callSeq[p])])
    /\ pc' = [pc EXCEPT ![p] = "idle"]
    /\ callYear' = [callYear EXCEPT ![p] = Undefined]
    /\ callSeq' = [callSeq EXCEPT ![p] = Undefined]
    /\ UNCHANGED <<currentYear, counters, caseVars>>

\* The calendar year turns.
NewYear ==
    /\ currentYear < FirstYear + NumYears - 1
    /\ currentYear' = currentYear + 1
    /\ UNCHANGED <<counters, refVars, caseVars>>

-----------------------------------------------------------------------------
(* The case record: models/complaint.model.js *)

Absent == [absent |-> TRUE]     \* a sub-record that is not set
NoCase == [exists |-> FALSE]    \* findById returns null

Idle   == [pc |-> "idle"]       \* a call that has not come in
NoRace == [base |-> NoCase, version |-> 0, calls |-> <<Idle, Idle>>]

Statuses == {"Draft", "Pending Review", "Approved for Scheduling", "Ongoing",
             "Rejected", "Case Active", "Closed"}
ResolutionStatuses == {"Resolved Successfully", "Unresolved", "Cancelled by User"}

Owner     == "owner"                \* the account that files the case
Users     == {Owner, "other"}       \* accounts with role User
Admin     == "admin"                \* an account that passes verifyAdminOrStaff
InviteDates   == {"d1", "d2"}       \* dates the admin invites for
InviteTimes   == {"t1"}             \* times the admin invites for
ProposedDates == {"d2"}             \* dates the owner proposes instead
ProposedTimes == {"t2"}             \* times the owner proposes instead
Locations == {"office"}
NoteTexts == {"incomplete"}
Reasons   == {"busy"}
CloseWith == {"Resolved Successfully", "Unresolved"}  \* resolutions the admin closes with

MaxHistory == 2     \* statusHistory entries a case may collect
MaxNotes   == 1     \* notes a case may collect
MaxSeq     == 3     \* highest counter value references are drawn up to

Truthy(x) == x # Undefined      \* !x is false: the body field was sent and is not empty

\* a || b of two body or document fields.
Or(a, b) == IF Truthy(a) THEN a ELSE b

\* The text fields of a case that the claims speak of, and request bodies
\* that carry them; a field that was not sent is Undefined.
Titles         == {"t1"}
Categories     == {"Vendor & Service Issues"}
DesiredActions == {"Mediation/Internal Settlement"}
Narratives     == {"n1", "n2"}

Body(title, category, desiredAction, narrative) ==
    [title |-> title, category |-> category, desiredAction |-> desiredAction,
     narrative |-> narrative]

FullBody  == Body("t1", "Vendor & Service Issues", "Mediation/Internal Settlement", "n1")
EmptyBody == Body(Undefined, Undefined, Undefined, Undefined)

-----------------------------------------------------------------------------
(* utils/notification.js createNotification, notifyAdmins; utils/email.js
   sendEmail *)

\* What the awaited promise of an emitter does: ok tells whether
\* Notification.create, User.find / Notification.insertMany or
\* transporter.sendMail went through.  Each emitter wraps its call in a
\* try whose catch logs the error and returns.

\* A variant whose catch throws the error on.
createNotification_Rethrows(ok) == IF ok THEN "resolved" ELSE "rejected"

createNotification(ok) == IF ok THEN "resolved" ELSE "resolved"

notifyAdmins(ok) == IF ok THEN "resolved" ELSE "resolved"

sendEmail(ok) == IF ok THEN "resolved" ELSE "resolved"

-----------------------------------------------------------------------------
(* complaint.controller.js createCase *)

MAX_RETRIES == 3

\* What one pass of the try block can meet: generateCaseRef throws, save
\* succeeds, save throws a duplicate-key error (code 11000), save throws
\* anything else.
AttemptOutcomes == {"ok", "duplicate", "saveError", "refError"}

\* The outcomes left when every stored reference was drawn from the counter:
\* a fresh number is then never taken, and save meets no duplicate key.
CounterFedOutcomes == AttemptOutcomes \ {"duplicate"}

\* A variant that goes round again after any error of a save.
ShouldRetry_AnyError(error, i) == i < MAX_RETRIES - 1

\* The test of the catch block on pass i (0-based): go round again on a
\* duplicate key while a pass is left.
ShouldRetry(error, i) == error = "duplicate" /\ i < MAX_RETRIES - 1

\* The for loop of createCase from pass i (0-based) on: the counters it
\* leaves, the reference it saved under (when it saved) and the status sent.
RECURSIVE createLoop(_, _, _, _)
createLoop(i, ctrs, y, outs) ==
    IF outs[i + 1] = "refError"
    THEN [code |-> 500, counters |-> ctrs, saved |-> FALSE, caseRef |-> Undefined]
    ELSE LET after == findOneAndUpdateInc(ctrs, y)
             ref   == FormatCaseRef(y, after[y])
         IN  IF outs[i + 1] = "ok"
             THEN [code |-> 201, counters |-> after, saved |-> TRUE, caseRef |-> ref]
             ELSE IF ShouldRetry(outs[i + 1], i)
                  THEN createLoop(i + 1, after, y, outs)
                  ELSE [code |-> 500, counters |-> after, saved |-> FALSE,
                        caseRef |-> Undefined]

\* A variant that reads the autoAcceptComplaints setting the wrong way round.
NewCase_SettingInverted(ref, user, isDraft, autoAccept, body) ==
    [exists        |-> TRUE,
     caseRef       |-> ref,
     type          |-> "Case",
     complainant   |-> user,
     title         |-> body.title,
     category      |-> body.category,
     desiredAction |-> body.desiredAction,
     narrative     |-> body.narrative,
     status        |-> IF isDraft THEN "Draft"
                       ELSE IF autoAccept THEN "Pending Review"
                       ELSE "Approved for Scheduling",
     statusHistory |-> <<[status |-> IF isDraft THEN "Draft" ELSE "Pending Review",
                          notes |-> Undefined]>>,
     invitation    |-> Absent,
     notes         |-> <<>>,
     resolutionStatus |-> Undefined,
     \* schema defaults of the public feed and interaction fields
     isPublic      |-> FALSE,
     views         |-> 0,
     likes         |-> 0,
     dislikes      |-> 0,
     likedBy       |-> <<>>,
     dislikedBy    |-> <<>>,
     viewedBy      |-> <<>>]

\* new Complaint({...}) of createCase.
NewCase(ref, user, isDraft, autoAccept, body) ==
    [exists        |-> TRUE,
     caseRef       |-> ref,
     type          |-> "Case",
     complainant   |-> user,
     title         |-> body.title,
     category      |-> body.category,
     desiredAction |-> body.desiredAction,
     narrative     |-> body.narrative,
     status        |-> IF isDraft THEN "Draft"
                       ELSE IF autoAccept THEN "Approved for Scheduling"
                       ELSE "Pending Review",
     statusHistory |-> <<[status |-> IF isDraft THEN "Draft" ELSE "Pending Review",
                          notes |-> Undefined]>>,
     invitation    |-> Absent,
     notes         |-> <<>>,
     resolutionStatus |-> Undefined,
     \* schema defaults of the public feed and interaction fields
     isPublic      |-> FALSE,
     views         |-> 0,
     likes         |-> 0,
     dislikes      |-> 0,
     likedBy       |-> <<>>,
     dislikedBy    |-> <<>>,
     viewedBy      |-> <<>>]

\* A variant that stores the document whatever save() did.
AfterSave_Always(saved, doc, old) == doc

\* The collection slot after await doc.save(): the document when the save
\* went through, what was there when it threw.
AfterSave(saved, doc, old) == IF saved THEN doc ELSE old

\* The answer of a handler that called no emitter.
Respond(op, code) ==
    response' = [op |-> op, code |-> code] /\ logged' = FALSE /\ trail' = <<>>

\* The answer of a handler that called its emitters when emitted holds; ok is
\* what the emitters met.
RespondAfter(op, code, emitted, ok) ==
    response' = [op |-> op, code |-> code] /\ logged' = (emitted /\ ~ok) /\ trail' = <<>>

\* A variant of the schema whose category, desiredAction and narrative are
\* optional for every type.
validate_AllOptional(c) == Truthy(c.title)

\* The required validators of complaintSchema that save() runs before the
\* insert: caseRef and title always; category, desiredAction and narrative
\* when this.type === 'Case'.
validate(c) ==
    /\ Truthy(c.title)
    /\ c.type = "Case" => /\ Truthy(c.category)
                          /\ Truthy(c.desiredAction)
                          /\ Truthy(c.narrative)

\* What the saves of a creation meet: a document that fails validation is
\* rejected with a ValidationError on every attempt that got a reference.
SaveOutcomes(valid, outs) ==
    [i \in DOMAIN outs |-> IF valid \/ outs[i] = "refError" THEN outs[i] ELSE "saveError"]

\* autoAccept is what AppSettings.findOne() reads for autoAcceptComplaints: the
\* settings document is written by updateAppSettings at any time, so the read
\* may find either value.
createCase(user, verified, autoAccept, isDraft, body, outs, notifyOk) ==
    /\ complaint = NoCase
    /\ (IF HasCounter(counters, currentYear) THEN counters[currentYear] ELSE 0)
            + MAX_RETRIES <= MaxSeq
    /\ IF ~verified
       THEN Respond("createCase", 403) /\ UNCHANGED <<complaint, counters>>
       ELSE IF ~isDraft /\ ( \/ ~Truthy(body.title) \/ ~Truthy(body.category)
                             \/ ~Truthy(body.desiredAction) \/ ~Truthy(body.narrative) )
       THEN Respond("createCase", 400) /\ UNCHANGED <<complaint, counters>>
       ELSE IF isDraft /\ ~Truthy(body.title)
       THEN Respond("createCase", 400) /\ UNCHANGED <<complaint, counters>>
       ELSE LET valid == validate(NewCase(Undefined, user, isDraft, autoAccept, body))
                r     == createLoop(0, counters, currentYear, SaveOutcomes(valid, outs))
            IN  /\ counters' = r.counters
                /\ complaint' = AfterSave(r.saved,
                                          NewCase(r.caseRef, user, isDraft, autoAccept, body),
                                          complaint)
                \* notifyAdmins is awaited after the save, inside the try
                /\ RespondAfter("createCase",
                                IF r.saved /\ notifyAdmins(notifyOk) = "rejected"
                                THEN 500 ELSE r.code,
                                r.saved, notifyOk)
    /\ UNCHANGED <<currentYear, refVars, inflight>>

-----------------------------------------------------------------------------
(* complaint.controller.js createMvoiApplication *)

\* The body fields createMvoiApplication tests.
MvoiBody(title, initiativeCategory, narrative, applicantName, applicantEmail, applicantPhone) ==
    [title |-> title, initiativeCategory |-> initiativeCategory, narrative |-> narrative,
     applicantName |-> applicantName, applicantEmail |-> applicantEmail,
     applicantPhone |-> applicantPhone]

FullMvoiBody      == MvoiBody("t1", "Education", "n1", "name", "mail", "phone")
NoContactMvoiBody == MvoiBody("t1", "Education", "n1", Undefined, Undefined, Undefined)
TitleMvoiBody     == MvoiBody("t1", Undefined, Undefined, Undefined, Undefined, Undefined)
EmptyMvoiBody     == MvoiBody(Undefined, Undefined, Undefined, Undefined, Undefined, Undefined)
MvoiBodies        == {FullMvoiBody, NoContactMvoiBody, TitleMvoiBody, EmptyMvoiBody}

\* new Complaint({...}) of createMvoiApplication.
NewMvoi(ref, user, isDraft, body) ==
    [exists        |-> TRUE,
     caseRef       |-> ref,
     type          |-> "MVOI",
     complainant   |-> user,
     title         |-> body.title,
     category      |-> Undefined,
     desiredAction |-> Undefined,
     narrative     |-> body.narrative,
     status        |-> IF isDraft THEN "Draft" ELSE "Pending Review",
     statusHistory |-> <<[status |-> IF isDraft THEN "Draft" ELSE "Pending Review",
                          notes |-> Undefined]>>,
     invitation    |-> Absent,
     notes         |-> <<>>,
     resolutionStatus |-> Undefined,
     \* schema defaults of the public feed and interaction fields
     isPublic      |-> FALSE,
     views         |-> 0,
     likes         |-> 0,
     dislikes      |-> 0,
     likedBy       |-> <<>>,
     dislikedBy    |-> <<>>,
     viewedBy      |-> <<>>]

\* The one try of createMvoiApplication: generateCaseRef, save, notifyAdmins,
\* with any error answered 500.  outs[1] is what that one attempt meets; the
\* handler never comes to the later entries.
createMvoiApplication(user, verified, isDraft, body, outs, notifyOk) ==
    /\ complaint = NoCase
    /\ (IF HasCounter(counters, currentYear) THEN counters[currentYear] ELSE 0) + 1 <= MaxSeq
    /\ IF ~isDraft /\ ( \/ ~Truthy(body.title) \/ ~Truthy(body.initiativeCategory)
                        \/ ~Truthy(body.narrative) )
       THEN Respond("createMvoiApplication", 400) /\ UNCHANGED <<complaint, counters>>
       ELSE IF ~isDraft /\ ( \/ ~Truthy(body.applicantName) \/ ~Truthy(body.applicantEmail)
                             \/ ~Truthy(body.applicantPhone) )
       THEN Respond("createMvoiApplication", 400) /\ UNCHANGED <<complaint, counters>>
       ELSE IF isDraft /\ ~Truthy(body.title)
       THEN Respond("createMvoiApplication", 400) /\ UNCHANGED <<complaint, counters>>
       ELSE IF ~verified
       THEN Respond("createMvoiApplication", 403) /\ UNCHANGED <<complaint, counters>>
       ELSE IF outs[1] = "refError"
       THEN Respond("createMvoiApplication", 500) /\ UNCHANGED <<complaint, counters>>
       ELSE LET after == findOneAndUpdateInc(counters, currentYear)
                ref   == FormatCaseRef(currentYear, after[currentYear])
                saved == outs[1] = "ok"
            IN  /\ counters' = after
                /\ complaint' = AfterSave(saved, NewMvoi(ref, user, isDraft, body), complaint)
                /\ RespondAfter("createMvoiApplication",
                                IF saved /\ notifyAdmins(notifyOk) = "resolved"
                                THEN 201 ELSE 500,
                                saved, notifyOk)
    /\ UNCHANGED <<currentYear, refVars, inflight>>

-----------------------------------------------------------------------------
(* admin.controller.js: vetCase, scheduleCase, respondToUserProposal,
   revertCaseToPending, closeCase *)

\* The frame of a handler that works on the case record only.
CaseFrame == UNCHANGED <<currentYear, counters, refVars, inflight>>

\* A variant that files the rejection note for admins only.
vetCaseDoc_AdminOnlyNote(c, status, noteContent) ==
    [c EXCEPT !.status = status,
              !.notes  = IF status = "Rejected" /\ Truthy(noteContent)
                         THEN Append(@, [content |-> noteContent, author |-> Admin,
                                         visibility |-> "Admin Only"])
                         ELSE @]

\* The document vetCase saves.
vetCaseDoc(c, status, noteContent) ==
    [c EXCEPT !.status = status,
              !.notes  = IF status = "Rejected" /\ Truthy(noteContent)
                         THEN Append(@, [content |-> noteContent, author |-> Admin,
                                         visibility |-> "User Visible"])
                         ELSE @]

\* populated tells whether populate('complainant') finds the user document:
\* bulkDeleteUsers removes users and leaves their complaints, and the path is
\* then null, so that reading complaint.complainant.email (or ._id) after the
\* save throws into the handler's catch.
vetCase(status, noteContent, saveOk, populated, notifyOk) ==
    /\ complaint # NoCase => Len(complaint.notes) < MaxNotes \/ status # "Rejected"
    /\ IF status \notin {"Approved for Scheduling", "Rejected"}
       THEN Respond("vetCase", 400) /\ UNCHANGED complaint
       ELSE IF status = "Rejected" /\ ~Truthy(noteContent)
       THEN Respond("vetCase", 400) /\ UNCHANGED complaint
       ELSE IF complaint = NoCase
       THEN Respond("vetCase", 404) /\ UNCHANGED complaint
       ELSE IF ~saveOk
       THEN Respond("vetCase", 500) /\ UNCHANGED complaint
       ELSE complaint' = vetCaseDoc(complaint, status, noteContent)
            /\ RespondAfter("vetCase",
                            IF /\ populated
                               /\ status = "Rejected" => sendEmail(notifyOk) = "resolved"
                               /\ createNotification(notifyOk) = "resolved"
                            THEN 200 ELSE 500,
                            populated, notifyOk)
    /\ CaseFrame

\* The document scheduleCase saves.
\* A variant that writes the date, time and location into the invitation
\* on file.
scheduleCaseDoc_KeepsResponse(c, date, time, location) ==
    [c EXCEPT !.status = "Approved for Scheduling",
              !.invitation = [date |-> date, time |-> time, location |-> location,
                              userResponse |-> IF c.invitation = Absent THEN Absent
                                               ELSE c.invitation.userResponse]]

scheduleCaseDoc(c, date, time, location) ==
    [c EXCEPT !.status = "Approved for Scheduling",
              !.invitation = [date |-> date, time |-> time, location |-> location,
                              userResponse |-> Absent]]

\* A variant that invites in every status.
scheduleCase_AnyStatus(date, time, location, saveOk, populated, notifyOk) ==
    /\ IF ~Truthy(date) \/ ~Truthy(time) \/ ~Truthy(location)
       THEN Respond("scheduleCase", 400) /\ UNCHANGED complaint
       ELSE IF complaint = NoCase
       THEN Respond("scheduleCase", 404) /\ UNCHANGED complaint
       ELSE IF ~saveOk
       THEN Respond("scheduleCase", 500) /\ UNCHANGED complaint
       ELSE complaint' = scheduleCaseDoc(complaint, date, time, location)
            /\ RespondAfter("scheduleCase",
                            IF /\ populated
                               /\ sendEmail(notifyOk) = "resolved"
                               /\ createNotification(notifyOk) = "resolved"
                            THEN 200 ELSE 500,
                            populated, notifyOk)
    /\ CaseFrame

scheduleCase(date, time, location, saveOk, populated, notifyOk) ==
    /\ IF ~Truthy(date) \/ ~Truthy(time) \/ ~Truthy(location)
       THEN Respond("scheduleCase", 400) /\ UNCHANGED complaint
       ELSE IF complaint = NoCase
       THEN Respond("scheduleCase", 404) /\ UNCHANGED complaint
       ELSE IF complaint.status \notin {"Pending Review", "Approved for Scheduling"}
       THEN Respond("scheduleCase", 409) /\ UNCHANGED complaint
       ELSE IF ~saveOk
       THEN Respond("scheduleCase", 500) /\ UNCHANGED complaint
       ELSE complaint' = scheduleCaseDoc(complaint, date, time, location)
            /\ RespondAfter("scheduleCase",
                            IF /\ populated
                               /\ sendEmail(notifyOk) = "resolved"
                               /\ createNotification(notifyOk) = "resolved"
                            THEN 200 ELSE 500,
                            populated, notifyOk)
    /\ CaseFrame

\* A variant whose rejection branch adopts the proposed date like the
\* acceptance branch does.
respondToUserProposalDoc_RejectAdopts(c, adminResponse) ==
    IF adminResponse = "Accepted"
    THEN [c EXCEPT !.invitation.date = c.invitation.userResponse.proposedDate,
                   !.invitation.time = c.invitation.userResponse.proposedTime,
                   !.invitation.userResponse = Absent,
                   !.status = "Ongoing",
                   !.statusHistory = Append(@, [status |-> "Scheduled",
                        notes |-> "Admin accepted user's proposed time."])]
    ELSE [c EXCEPT !.invitation.date = c.invitation.userResponse.proposedDate,
                   !.invitation.userResponse = Absent,
                   !.statusHistory = Append(@, [status |-> "Approved for Scheduling",
                        notes |-> "Admin rejected user's proposed time."])]

\* A variant that clears the proposal without adopting its time.
respondToUserProposalDoc_KeepsTime(c, adminResponse) ==
    IF adminResponse = "Accepted"
    THEN [c EXCEPT !.invitation.date = c.invitation.userResponse.proposedDate,
                   !.invitation.userResponse = Absent,
                   !.status = "Ongoing",
                   !.statusHistory = Append(@, [status |-> "Scheduled",
                        notes |-> "Admin accepted user's proposed time."])]
    ELSE [c EXCEPT !.invitation.userResponse = Absent,
                   !.statusHistory = Append(@, [status |-> "Approved for Scheduling",
                        notes |-> "Admin rejected user's proposed time."])]

\* The document respondToUserProposal saves.
respondToUserProposalDoc(c, adminResponse) ==
    IF adminResponse = "Accepted"
    THEN [c EXCEPT !.invitation.date = c.invitation.userResponse.proposedDate,
                   !.invitation.time = c.invitation.userResponse.proposedTime,
                   !.invitation.userResponse = Absent,
                   !.status = "Ongoing",
                   !.statusHistory = Append(@, [status |-> "Scheduled",
                        notes |-> "Admin accepted user's proposed time."])]
    ELSE [c EXCEPT !.invitation.userResponse = Absent,
                   !.statusHistory = Append(@, [status |-> "Approved for Scheduling",
                        notes |-> "Admin rejected user's proposed time."])]

\* Here complaint.complainant._id is read before the save.
\* cap is the number of statusHistory entries up to which the handler is
\* followed.
respondToUserProposalUpTo(cap, adminResponse, saveOk, populated, notifyOk) ==
    /\ complaint # NoCase => Len(complaint.statusHistory) < cap
    /\ IF adminResponse \notin {"Accepted", "Rejected"}
       THEN Respond("respondToUserProposal", 400) /\ UNCHANGED complaint
       ELSE IF complaint = NoCase \/ complaint.invitation = Absent
                                  \/ complaint.invitation.userResponse = Absent
       THEN Respond("respondToUserProposal", 404) /\ UNCHANGED complaint
       ELSE IF ~populated \/ createNotification(notifyOk) = "rejected" \/ ~saveOk
       THEN RespondAfter("respondToUserProposal", 500, populated, notifyOk)
            /\ UNCHANGED complaint
       ELSE complaint' = respondToUserProposalDoc(complaint, adminResponse)
            /\ RespondAfter("respondToUserProposal", 200, TRUE, notifyOk)
    /\ CaseFrame

respondToUserProposal(adminResponse, saveOk, populated, notifyOk) ==
    respondToUserProposalUpTo(MaxHistory, adminResponse, saveOk, populated, notifyOk)

\* A variant that starts the history over at the revert.
revertCaseToPendingDoc_RestartsHistory(c) ==
    [c EXCEPT !.status = "Pending Review",
              !.statusHistory = <<[status |-> "Pending Review",
                                   notes |-> "Case reverted by admin."]>>]

\* The document revertCaseToPending saves.  The test that guards the clearing
\* of the invitation reads complaint.status after it was assigned
\* 'Pending Review'.
revertCaseToPendingDoc(c) ==
    LET c1 == [c EXCEPT !.status = "Pending Review"]
        c2 == [c1 EXCEPT !.statusHistory = Append(@, [status |-> "Pending Review",
                                                     notes |-> "Case reverted by admin."])]
    IN  IF c2.status = "Approved for Scheduling"
        THEN [c2 EXCEPT !.invitation = Absent]
        ELSE c2

revertCaseToPending(saveOk, notifyOk) ==
    /\ complaint # NoCase => Len(complaint.statusHistory) < MaxHistory
    /\ IF complaint = NoCase
       THEN Respond("revertCaseToPending", 404) /\ UNCHANGED complaint
       ELSE IF complaint.status \notin {"Approved for Scheduling", "Rejected"}
       THEN Respond("revertCaseToPending", 409) /\ UNCHANGED complaint
       ELSE IF ~saveOk
       THEN Respond("revertCaseToPending", 500) /\ UNCHANGED complaint
       ELSE complaint' = revertCaseToPendingDoc(complaint)
            /\ RespondAfter("revertCaseToPending",
                            IF createNotification(notifyOk) = "resolved" THEN 200 ELSE 500,
                            TRUE, notifyOk)
    /\ CaseFrame

\* The document closeCase saves.
closeCaseDoc(c, resolutionStatus) ==
    [c EXCEPT !.status = "Closed", !.resolutionStatus = resolutionStatus]

closeCase(resolutionStatus, saveOk, populated, notifyOk) ==
    /\ IF resolutionStatus \notin ResolutionStatuses
       THEN Respond("closeCase", 400) /\ UNCHANGED complaint
       ELSE IF complaint = NoCase
       THEN Respond("closeCase", 404) /\ UNCHANGED complaint
       ELSE IF ~saveOk
       THEN Respond("closeCase", 500) /\ UNCHANGED complaint
       ELSE complaint' = closeCaseDoc(complaint, resolutionStatus)
            /\ RespondAfter("closeCase",
                            IF populated /\ createNotification(notifyOk) = "resolved"
                            THEN 200 ELSE 500,
                            populated, notifyOk)
    /\ CaseFrame

-----------------------------------------------------------------------------
(* invitation.controller.js respondToInvitation *)

\* A variant that records the owner's answer for a rejection only.
respondToInvitationDoc_ClearsOnAccept(c, resp, proposedDate, proposedTime, reason) ==
    IF resp = "Accepted"
    THEN [c EXCEPT !.invitation.userResponse = Absent,
                   !.status = "Ongoing",
                   !.statusHistory = Append(@, [status |-> "Ongoing",
                        notes |-> "Complainant accepted the scheduled meeting."])]
    ELSE [c EXCEPT !.invitation.userResponse =
                        [status |-> resp, proposedDate |-> proposedDate,
                         proposedTime |-> proposedTime, reason |-> reason]]

\* The document respondToInvitation saves.
respondToInvitationDoc(c, resp, proposedDate, proposedTime, reason) ==
    LET ur == [status       |-> resp,
               proposedDate |-> IF resp = "Rejected" THEN proposedDate ELSE Undefined,
               proposedTime |-> IF resp = "Rejected" THEN proposedTime ELSE Undefined,
               reason       |-> IF resp = "Rejected" THEN reason ELSE Undefined]
        c1 == [c EXCEPT !.invitation.userResponse = ur]
    IN  IF resp = "Accepted"
        THEN [c1 EXCEPT !.status = "Ongoing",
                        !.statusHistory = Append(@, [status |-> "Ongoing",
                            notes |-> "Complainant accepted the scheduled meeting."])]
        ELSE c1

\* A variant that does not look at who answers.
respondToInvitation_AnyActor(user, resp, proposedDate, proposedTime, reason, saveOk, notifyOk) ==
    /\ complaint # NoCase => Len(complaint.statusHistory) < MaxHistory \/ resp # "Accepted"
    /\ IF resp \notin {"Accepted", "Rejected"}
       THEN Respond("respondToInvitation", 400) /\ UNCHANGED complaint
       ELSE IF resp = "Rejected" /\ (~Truthy(proposedDate) \/ ~Truthy(proposedTime))
       THEN Respond("respondToInvitation", 400) /\ UNCHANGED complaint
       ELSE IF complaint = NoCase \/ complaint.invitation = Absent
       THEN Respond("respondToInvitation", 404) /\ UNCHANGED complaint
       ELSE IF ~saveOk
       THEN Respond("respondToInvitation", 500) /\ UNCHANGED complaint
       ELSE complaint' = respondToInvitationDoc(complaint, resp, proposedDate,
                                                proposedTime, reason)
            /\ RespondAfter("respondToInvitation",
                            IF /\ notifyAdmins(notifyOk) = "resolved"
                               /\ createNotification(notifyOk) = "resolved"
                            THEN 200 ELSE 500,
                            TRUE, notifyOk)
    /\ CaseFrame

respondToInvitation(user, resp, proposedDate, proposedTime, reason, saveOk, notifyOk) ==
    /\ complaint # NoCase => Len(complaint.statusHistory) < MaxHistory \/ resp # "Accepted"
    /\ IF resp \notin {"Accepted", "Rejected"}
       THEN Respond("respondToInvitation", 400) /\ UNCHANGED complaint
       ELSE IF resp = "Rejected" /\ (~Truthy(proposedDate) \/ ~Truthy(proposedTime))
       THEN Respond("respondToInvitation", 400) /\ UNCHANGED complaint
       ELSE IF complaint = NoCase \/ complaint.invitation = Absent
       THEN Respond("respondToInvitation", 404) /\ UNCHANGED complaint
       ELSE IF complaint.complainant # user
       THEN Respond("respondToInvitation", 403) /\ UNCHANGED complaint
       ELSE IF ~saveOk
       THEN Respond("respondToInvitation", 500) /\ UNCHANGED complaint
       ELSE complaint' = respondToInvitationDoc(complaint, resp, proposedDate,
                                                proposedTime, reason)
            /\ RespondAfter("respondToInvitation",
                            IF /\ notifyAdmins(notifyOk) = "resolved"
                               /\ createNotification(notifyOk) = "resolved"
                            THEN 200 ELSE 500,
                            TRUE, notifyOk)
    /\ CaseFrame

-----------------------------------------------------------------------------
(* complaint.controller.js: updateComplaint, deleteComplaint *)

\* A variant that resubmits a rejected case without a history entry.
updateComplaintDoc_NoHistory(c, body) ==
    LET c1 == [c EXCEPT !.title         = Or(body.title, @),
                        !.category      = Or(body.category, @),
                        !.desiredAction = Or(body.desiredAction, @),
                        !.narrative     = Or(body.narrative, @)]
    IN  IF c.status = "Rejected"
        THEN [c1 EXCEPT !.status = "Pending Review"]
        ELSE c1

\* The document updateComplaint saves.
updateComplaintDoc(c, body) ==
    LET c1 == [c EXCEPT !.title         = Or(body.title, @),
                        !.category      = Or(body.category, @),
                        !.desiredAction = Or(body.desiredAction, @),
                        !.narrative     = Or(body.narrative, @)]
    IN  IF c.status = "Rejected"
        THEN [c1 EXCEPT !.status = "Pending Review",
                        !.statusHistory = Append(@, [status |-> "Pending Review",
                            notes |-> "Complaint was edited and resubmitted by the user after rejection."])]
        ELSE c1

\* A variant that lets the owner edit in every status.
updateComplaint_AnyStatus(user, body, saveOk, notifyOk) ==
    /\ complaint # NoCase =>
            Len(complaint.statusHistory) < MaxHistory \/ complaint.status # "Rejected"
    /\ IF complaint = NoCase
       THEN Respond("updateComplaint", 404) /\ UNCHANGED complaint
       ELSE IF complaint.complainant # user
       THEN Respond("updateComplaint", 403) /\ UNCHANGED complaint
       ELSE IF \/ complaint.status = "Rejected" /\ notifyAdmins(notifyOk) = "rejected"
               \/ ~saveOk
       THEN RespondAfter("updateComplaint", 500, complaint.status = "Rejected", notifyOk)
            /\ UNCHANGED complaint
       ELSE complaint' = updateComplaintDoc(complaint, body)
            /\ RespondAfter("updateComplaint", 200, complaint.status = "Rejected", notifyOk)
    /\ CaseFrame

updateComplaint(user, body, saveOk, notifyOk) ==
    /\ complaint # NoCase =>
            Len(complaint.statusHistory) < MaxHistory \/ complaint.status # "Rejected"
    /\ IF complaint = NoCase
       THEN Respond("updateComplaint", 404) /\ UNCHANGED complaint
       ELSE IF complaint.complainant # user
       THEN Respond("updateComplaint", 403) /\ UNCHANGED complaint
       ELSE IF complaint.status \notin {"Draft", "Pending Review", "Rejected"}
       THEN Respond("updateComplaint", 403) /\ UNCHANGED complaint
       ELSE IF \/ complaint.status = "Rejected" /\ notifyAdmins(notifyOk) = "rejected"
               \/ ~saveOk
       THEN RespondAfter("updateComplaint", 500, complaint.status = "Rejected", notifyOk)
            /\ UNCHANGED complaint
       ELSE complaint' = updateComplaintDoc(complaint, body)
            /\ RespondAfter("updateComplaint", 200, complaint.status = "Rejected", notifyOk)
    /\ CaseFrame

\* A variant that lets the owner delete only what the owner may still edit.
deleteComplaint_EditableOnly(user, deleteOk) ==
    /\ IF complaint = NoCase
       THEN Respond("deleteComplaint", 404) /\ UNCHANGED complaint
       ELSE IF complaint.complainant # user
       THEN Respond("deleteComplaint", 403) /\ UNCHANGED complaint
       ELSE IF complaint.status \notin {"Draft", "Pending Review", "Rejected"}
       THEN Respond("deleteComplaint", 403) /\ UNCHANGED complaint
       ELSE IF ~deleteOk
       THEN Respond("deleteComplaint", 500) /\ UNCHANGED complaint
       ELSE complaint' = NoCase /\ Respond("deleteComplaint", 200)
    /\ CaseFrame

\* deleteOk tells whether complaint.deleteOne() went through.
deleteComplaint(user, deleteOk) ==
    /\ IF complaint = NoCase
       THEN Respond("deleteComplaint", 404) /\ UNCHANGED complaint
       ELSE IF complaint.complainant # user
       THEN Respond("deleteComplaint", 403) /\ UNCHANGED complaint
       ELSE IF ~deleteOk
       THEN Respond("deleteComplaint", 500) /\ UNCHANGED complaint
       ELSE complaint' = NoCase /\ Respond("deleteComplaint", 200)
    /\ CaseFrame

------------------------------------------------------------------------------
(* admin.controller.js bulkDeleteComplaints, behind verifyJWT and
   verifyAdminOrStaff of admin.routes.js *)

TheCase  == "case"                  \* the _id of the case in the slot
IdLists  == {{}, {"gone"}, {TheCase}, {TheCase, "gone"}}
Actors   == Users \cup {Admin}

\* actor is the account of the token; complaintIds the ids sent; evidenceOk
\* tells whether the public ids could be cut from the evidence URLs and
\* cloudinary.api.delete_resources went through (or there was no evidence);
\* deleteOk whether Complaint.deleteMany did.  No status is read.
bulkDeleteComplaints(actor, complaintIds, evidenceOk, deleteOk) ==
    /\ IF actor # Admin
       THEN Respond("bulkDeleteComplaints", 403) /\ UNCHANGED complaint
       ELSE IF complaintIds = {}
       THEN Respond("bulkDeleteComplaints", 400) /\ UNCHANGED complaint
       ELSE IF complaint = NoCase \/ TheCase \notin complaintIds
       THEN Respond("bulkDeleteComplaints", 404) /\ UNCHANGED complaint
       ELSE IF ~evidenceOk \/ ~deleteOk
       THEN Respond("bulkDeleteComplaints", 500) /\ UNCHANGED complaint
       ELSE complaint' = NoCase /\ Respond("bulkDeleteComplaints", 200)
    /\ CaseFrame

-----------------------------------------------------------------------------
(* admin.controller.js updateComplaintDetails *)

\* A variant whose update also files the case as a 'Case' when a category is
\* sent.
updateComplaintDetailsDoc_Retypes(c, updateData) ==
    [c EXCEPT !.title         = IF updateData.title # Undefined THEN updateData.title ELSE @,
              !.category      = IF updateData.category # Undefined
                                THEN updateData.category ELSE @,
              !.desiredAction = IF updateData.desiredAction # Undefined
                                THEN updateData.desiredAction ELSE @,
              !.narrative     = IF updateData.narrative # Undefined
                                THEN updateData.narrative ELSE @,
              !.type          = IF updateData.category # Undefined THEN "Case" ELSE @]

\* The document findByIdAndUpdate leaves: $set of the allowed fields that
\* were sent.
updateComplaintDetailsDoc(c, updateData) ==
    [c EXCEPT !.title         = IF updateData.title # Undefined THEN updateData.title ELSE @,
              !.category      = IF updateData.category # Undefined
                                THEN updateData.category ELSE @,
              !.desiredAction = IF updateData.desiredAction # Undefined
                                THEN updateData.desiredAction ELSE @,
              !.narrative     = IF updateData.narrative # Undefined
                                THEN updateData.narrative ELSE @]

updateComplaintDetails(updateData, updateOk) ==
    /\ IF updateData = EmptyBody
       THEN Respond("updateComplaintDetails", 400) /\ UNCHANGED complaint
       ELSE IF ~updateOk
       THEN Respond("updateComplaintDetails", 500) /\ UNCHANGED complaint
       ELSE IF complaint = NoCase
       THEN Respond("updateComplaintDetails", 404) /\ UNCHANGED complaint
       ELSE complaint' = updateComplaintDetailsDoc(complaint, updateData)
            /\ Respond("updateComplaintDetails", 200)
    /\ CaseFrame

-----------------------------------------------------------------------------
(* admin.controller.js addNote *)

Visibilities == {"Admin Only", "User Visible"}

\* The document addNote saves.
addNoteDoc(c, content, visibility) ==
    [c EXCEPT !.notes = Append(@, [content |-> content, author |-> Admin,
                                   visibility |-> visibility])]

addNote(content, visibility, saveOk) ==
    /\ complaint # NoCase => Len(complaint.notes) < MaxNotes
    /\ IF ~Truthy(content)
       THEN Respond("addNote", 400) /\ UNCHANGED complaint
       ELSE IF visibility \notin Visibilities
       THEN Respond("addNote", 400) /\ UNCHANGED complaint
       ELSE IF complaint = NoCase
       THEN Respond("addNote", 404) /\ UNCHANGED complaint
       ELSE IF ~saveOk
       THEN Respond("addNote", 500) /\ UNCHANGED complaint
       ELSE complaint' = addNoteDoc(complaint, content, visibility)
            /\ Respond("addNote", 201)
    /\ CaseFrame

-----------------------------------------------------------------------------
(* controllers/public.controller.js getPublicComplaintById,
   likePublicComplaint, handleSentiment; the isPublic key of
   admin.controller.js updateComplaintDetails *)

NumAddresses == 2
Addresses == 1..NumAddresses        \* req.ip of the callers

\* crypto.createHash('sha256').update(ip).digest('hex'): a string that is not
\* the address, one per address.
sha256(ip) == "sha256:" \o ToString(ip)

\* array.includes(x)
includes(array, x) == \E i \in 1..Len(array) : array[i] = x

\* array.filter(id => id !== x)
RECURSIVE filterOut(_, _)
filterOut(array, x) ==
    IF array = <<>> THEN <<>>
    ELSE IF Head(array) = x THEN filterOut(Tail(array), x)
    ELSE <<Head(array)>> \o filterOut(Tail(array), x)

\* array.splice(array.indexOf(x), 1) for an x the array holds
RECURSIVE spliceFirst(_, _)
spliceFirst(array, x) ==
    IF array = <<>> THEN <<>>
    ELSE IF Head(array) = x THEN Tail(array)
    ELSE <<Head(array)>> \o spliceFirst(Tail(array), x)

\* The identifier of a caller: the user id when req.user is set, else the
\* digest of the address.
Identifier(user, ip) == IF user # Undefined THEN user ELSE sha256(ip)

SentimentActions == {"LIKE", "UNLIKE", "DISLIKE", "UNDISLIKE"}

\* findByIdAndUpdate(id, {$set: {isPublic}}) of updateComplaintDetails.
updateIsPublic(isPublic, updateOk) ==
    /\ IF ~updateOk
       THEN Respond("updateComplaintDetails", 500) /\ UNCHANGED complaint
       ELSE IF complaint = NoCase
       THEN Respond("updateComplaintDetails", 404) /\ UNCHANGED complaint
       ELSE complaint' = [complaint EXCEPT !.isPublic = isPublic]
            /\ Respond("updateComplaintDetails", 200)
    /\ CaseFrame

\* A variant that counts every read.
getPublicComplaintByIdDoc_CountsEveryRead(c, ipHash, isOwner) ==
    [c EXCEPT !.views = @ + 1,
              !.viewedBy = IF ~includes(@, ipHash) THEN Append(@, ipHash) ELSE @]

\* The document getPublicComplaintById saves.
getPublicComplaintByIdDoc(c, ipHash, isOwner) ==
    IF ~includes(c.viewedBy, ipHash) \/ isOwner
    THEN [c EXCEPT !.views = @ + 1,
                   !.viewedBy = IF ~includes(@, ipHash) THEN Append(@, ipHash) ELSE @]
    ELSE c

\* user is req.user, ip the caller's address, allowPublicView the setting
\* AppSettings.findOne() reads; saveOk tells whether the save went through.
getPublicComplaintById(user, ip, allowPublicView, saveOk) ==
    /\ IF ~allowPublicView
       THEN Respond("getPublicComplaintById", 403) /\ UNCHANGED complaint
       ELSE IF complaint = NoCase \/ ~complaint.isPublic
       THEN Respond("getPublicComplaintById", 404) /\ UNCHANGED complaint
       ELSE LET ipHash  == sha256(ip)
                isOwner == user # Undefined /\ user = complaint.complainant
                doc     == getPublicComplaintByIdDoc(complaint, ipHash, isOwner)
            IN  IF doc # complaint /\ ~saveOk
                THEN Respond("getPublicComplaintById", 500) /\ UNCHANGED complaint
                ELSE complaint' = doc /\ Respond("getPublicComplaintById", 200)
    /\ CaseFrame

\* The document likePublicComplaint saves: a toggle of the like.
likePublicComplaintDoc(c, identifier) ==
    IF includes(c.likedBy, identifier)
    THEN [c EXCEPT !.likes = IF @ - 1 > 0 THEN @ - 1 ELSE 0,
                   !.likedBy = spliceFirst(@, identifier)]
    ELSE [c EXCEPT !.likes = @ + 1,
                   !.likedBy = Append(@, identifier)]

likePublicComplaint(user, ip, allowPublicView, saveOk) ==
    /\ IF ~allowPublicView
       THEN Respond("likePublicComplaint", 403) /\ UNCHANGED complaint
       ELSE IF complaint = NoCase \/ ~complaint.isPublic
       THEN Respond("likePublicComplaint", 404) /\ UNCHANGED complaint
       ELSE IF ~saveOk
       THEN Respond("likePublicComplaint", 500) /\ UNCHANGED complaint
       ELSE complaint' = likePublicComplaintDoc(complaint, Identifier(user, ip))
            /\ Respond("likePublicComplaint", 200)
    /\ CaseFrame

\* A variant whose LIKE and DISLIKE leave the opposite array alone.
handleSentimentDoc_KeepsOpposite(c, identifier, action) ==
    LET hasLiked    == includes(c.likedBy, identifier)
        hasDisliked == includes(c.dislikedBy, identifier)
        likedBy     == IF action = "LIKE" /\ ~hasLiked THEN Append(c.likedBy, identifier)
                       ELSE IF action = "UNLIKE" /\ hasLiked
                       THEN filterOut(c.likedBy, identifier)
                       ELSE c.likedBy
        dislikedBy  == IF action = "DISLIKE" /\ ~hasDisliked
                       THEN Append(c.dislikedBy, identifier)
                       ELSE IF action = "UNDISLIKE" /\ hasDisliked
                       THEN filterOut(c.dislikedBy, identifier)
                       ELSE c.dislikedBy
    IN  [c EXCEPT !.likedBy = likedBy, !.dislikedBy = dislikedBy,
                  !.likes = Len(likedBy), !.dislikes = Len(dislikedBy)]

\* A variant that steps the count of the array the action names and does not
\* recompute the other.
handleSentimentDoc_StepsCounts(c, identifier, action) ==
    LET hasLiked    == includes(c.likedBy, identifier)
        hasDisliked == includes(c.dislikedBy, identifier)
        likedBy     == IF action = "LIKE" /\ ~hasLiked THEN Append(c.likedBy, identifier)
                       ELSE IF action \in {"UNLIKE", "DISLIKE"} /\ hasLiked
                       THEN filterOut(c.likedBy, identifier)
                       ELSE c.likedBy
        dislikedBy  == IF action = "DISLIKE" /\ ~hasDisliked
                       THEN Append(c.dislikedBy, identifier)
                       ELSE IF action \in {"UNDISLIKE", "LIKE"} /\ hasDisliked
                       THEN filterOut(c.dislikedBy, identifier)
                       ELSE c.dislikedBy
    IN  [c EXCEPT !.likedBy = likedBy, !.dislikedBy = dislikedBy,
                  !.likes = IF action = "LIKE" /\ ~hasLiked THEN @ + 1
                            ELSE IF action = "UNLIKE" /\ hasLiked THEN @ - 1 ELSE @,
                  !.dislikes = IF action = "DISLIKE" /\ ~hasDisliked THEN @ + 1
                               ELSE IF action = "UNDISLIKE" /\ hasDisliked THEN @ - 1 ELSE @]

\* A variant whose LIKE and DISLIKE push whether or not the identifier is there.
handleSentimentDoc_AlwaysPushes(c, identifier, action) ==
    LET hasLiked    == includes(c.likedBy, identifier)
        hasDisliked == includes(c.dislikedBy, identifier)
        likedBy     == IF action = "LIKE" THEN Append(c.likedBy, identifier)
                       ELSE IF action \in {"UNLIKE", "DISLIKE"} /\ hasLiked
                       THEN filterOut(c.likedBy, identifier)
                       ELSE c.likedBy
        dislikedBy  == IF action = "DISLIKE" THEN Append(c.dislikedBy, identifier)
                       ELSE IF action \in {"UNDISLIKE", "LIKE"} /\ hasDisliked
                       THEN filterOut(c.dislikedBy, identifier)
                       ELSE c.dislikedBy
    IN  [c EXCEPT !.likedBy = likedBy, !.dislikedBy = dislikedBy,
                  !.likes = Len(likedBy), !.dislikes = Len(dislikedBy)]

\* The document handleSentiment saves: the switch on action, then the counts
\* recomputed from the array lengths.
handleSentimentDoc(c, identifier, action) ==
    LET hasLiked    == includes(c.likedBy, identifier)
        hasDisliked == includes(c.dislikedBy, identifier)
        likedBy     == IF action = "LIKE" /\ ~hasLiked THEN Append(c.likedBy, identifier)
                       ELSE IF action \in {"UNLIKE", "DISLIKE"} /\ hasLiked
                       THEN filterOut(c.likedBy, identifier)
                       ELSE c.likedBy
        dislikedBy  == IF action = "DISLIKE" /\ ~hasDisliked
                       THEN Append(c.dislikedBy, identifier)
                       ELSE IF action \in {"UNDISLIKE", "LIKE"} /\ hasDisliked
                       THEN filterOut(c.dislikedBy, identifier)
                       ELSE c.dislikedBy
    IN  [c EXCEPT !.likedBy = likedBy, !.dislikedBy = dislikedBy,
                  !.likes = Len(likedBy), !.dislikes = Len(dislikedBy)]

TrailLen == 3

\* The entry of a call: who asked for what, whether the identifier was in
\* the arrays when the handler read them, and the counts before and after.
TrailEntry(c, doc, identifier, action) ==
    [identifier |-> identifier, action |-> action,
     hasLiked |-> includes(c.likedBy, identifier),
     hasDisliked |-> includes(c.dislikedBy, identifier),
     before |-> [likes |-> c.likes, dislikes |-> c.dislikes],
     after  |-> [likes |-> doc.likes, dislikes |-> doc.dislikes]]

\* The trail with one more call: the calls of another identifier are dropped,
\* and so is the oldest call past TrailLen.
Trailed(t, e) ==
    LET same == IF t # <<>> /\ t[1].identifier = e.identifier THEN t ELSE <<>>
        all  == Append(same, e)
    IN  IF Len(all) > TrailLen THEN Tail(all) ELSE all

\* A variant that does not look at isPublic.
handleSentiment_AnyCase(user, ip, action, saveOk) ==
    /\ IF action \notin SentimentActions
       THEN Respond("handleSentiment", 400) /\ UNCHANGED complaint
       ELSE IF complaint = NoCase
       THEN Respond("handleSentiment", 404) /\ UNCHANGED complaint
       ELSE IF ~saveOk
       THEN Respond("handleSentiment", 500) /\ UNCHANGED complaint
       ELSE LET identifier == Identifier(user, ip)
                doc        == handleSentimentDoc(complaint, identifier, action)
            IN  /\ complaint' = doc
                /\ response' = [op |-> "handleSentiment", code |-> 200]
                /\ logged' = FALSE
                /\ trail' = Trailed(trail, TrailEntry(complaint, doc, identifier, action))
    /\ CaseFrame

\* user is req.user, ip the caller's address, action the body's action.
handleSentiment(user, ip, action, saveOk) ==
    /\ IF action \notin SentimentActions
       THEN Respond("handleSentiment", 400) /\ UNCHANGED complaint
       ELSE IF complaint = NoCase \/ ~complaint.isPublic
       THEN Respond("handleSentiment", 404) /\ UNCHANGED complaint
       ELSE IF ~saveOk
       THEN Respond("handleSentiment", 500) /\ UNCHANGED complaint
       ELSE LET identifier == Identifier(user, ip)
                doc        == handleSentimentDoc(complaint, identifier, action)
            IN  /\ complaint' = doc
                /\ response' = [op |-> "handleSentiment", code |-> 200]
                /\ logged' = FALSE
                /\ trail' = Trailed(trail, TrailEntry(complaint, doc, identifier, action))
    /\ CaseFrame

-----------------------------------------------------------------------------
(* Specifications *)

Init ==
    /\ currentYear = FirstYear
    /\ counters = [y \in {} |-> 0]
    /\ pc = [p \in Procs |-> "idle"]
    /\ callYear = [p \in Procs |-> Undefined]
    /\ callSeq = [p \in Procs |-> Undefined]
    /\ issued = <<>>
    /\ complaint = NoCase
    /\ response = [op |-> "none", code |-> 0]
    /\ logged = FALSE
    /\ trail = <<>>
    /\ inflight = NoRace

\* Concurrent callers of the reference generator.
NextRef ==
    \/ \E p \in Procs : ReadYear(p)
    \/ \E p \in Procs : IncrementCounter(p)
    \/ \E p \in Procs : ReturnRef(p)
    \/ NewYear

SpecRef == Init /\ [][NextRef]_vars

Opt(S) == S \cup {Undefined}

\* Commands on one case, each handler running from its read to its save.
\* The emitters go through here; NextNotify lets them fail.
Next ==
    \/ \E user \in {Owner}, verified, autoAccept, isDraft \in BOOLEAN,
          body \in {FullBody, EmptyBody},
          outs \in [1..MAX_RETRIES -> CounterFedOutcomes] :
            createCase(user, verified, autoAccept, isDraft, body, outs, TRUE)
    \/ \E status \in Opt({"Approved for Scheduling", "Rejected"}),
          noteContent \in Opt(NoteTexts), saveOk, populated \in BOOLEAN :
            vetCase(status, noteContent, saveOk, populated, TRUE)
    \/ \E date \in Opt(InviteDates), time \in Opt(InviteTimes), location \in Opt(Locations),
          saveOk, populated \in BOOLEAN :
            scheduleCase(date, time, location, saveOk, populated, TRUE)
    \/ \E adminResponse \in Opt({"Accepted", "Rejected"}), saveOk, populated \in BOOLEAN :
            respondToUserProposal(adminResponse, saveOk, populated, TRUE)
    \/ \E saveOk \in BOOLEAN : revertCaseToPending(saveOk, TRUE)
    \/ \E resolutionStatus \in Opt(CloseWith), saveOk, populated \in BOOLEAN :
            closeCase(resolutionStatus, saveOk, populated, TRUE)
    \/ \E user \in Users, resp \in Opt({"Accepted", "Rejected"}), saveOk \in BOOLEAN :
        \* the proposal fields are read from a rejection only
        \E proposedDate \in IF resp = "Rejected" THEN Opt(ProposedDates) ELSE {Undefined},
           proposedTime \in IF resp = "Rejected" THEN Opt(ProposedTimes) ELSE {Undefined},
           reason \in Reasons :
            respondToInvitation(user, resp, proposedDate, proposedTime, reason, saveOk, TRUE)
    \/ \E user \in Users, body \in {FullBody, EmptyBody}, saveOk \in BOOLEAN :
            updateComplaint(user, body, saveOk, TRUE)
    \/ \E user \in Users, deleteOk \in BOOLEAN : deleteComplaint(user, deleteOk)

Spec == Init /\ [][Next]_vars

\* The bodies of edits: the body that sends nothing, and with a title every
\* choice of sent and unsent category and narrative; the desired action is
\* sent along with the category.
EditBodies ==
    {EmptyBody} \cup
    {Body(t, c, IF c = Undefined THEN Undefined ELSE a, n) :
        t \in Titles, c \in Opt(Categories), a \in DesiredActions, n \in Opt(Narratives)}

AllOk == [i \in 1..MAX_RETRIES |-> "ok"]

\* Commands on one case with the text fields varied: creation, edits of the
\* owner and of another user, the admin's updateComplaintDetails, and the
\* lifecycle commands with well-formed bodies and a store that answers.
NextEdit ==
    \/ \E isDraft \in BOOLEAN, body \in EditBodies :
            createCase(Owner, TRUE, FALSE, isDraft, body, AllOk, TRUE)
    \/ \E user \in Users, body \in EditBodies : updateComplaint(user, body, TRUE, TRUE)
    \/ \E updateData \in EditBodies, updateOk \in BOOLEAN :
            updateComplaintDetails(updateData, updateOk)
    \/ \E status \in {"Approved for Scheduling", "Rejected"}, n \in NoteTexts :
            vetCase(status, n, TRUE, TRUE, TRUE)
    \/ \E date \in InviteDates \ ProposedDates, time \in InviteTimes, location \in Locations :
            scheduleCase(date, time, location, TRUE, TRUE, TRUE)
    \/ \E adminResponse \in {"Accepted", "Rejected"} :
            respondToUserProposal(adminResponse, TRUE, TRUE, TRUE)
    \/ revertCaseToPending(TRUE, TRUE)
    \/ \E resolutionStatus \in CloseWith : closeCase(resolutionStatus, TRUE, TRUE, TRUE)
    \/ \E resp \in {"Accepted", "Rejected"}, pd \in ProposedDates, pt \in ProposedTimes,
          r \in Reasons :
            respondToInvitation(Owner, resp, pd, pt, r, TRUE, TRUE)
    \/ \E user \in Users : deleteComplaint(user, TRUE)

SpecEdit == Init /\ [][NextEdit]_vars

\* Commands on one case with well-formed bodies, where the store may refuse
\* the save, the complainant's account may be gone, and the notification
\* store and the mail transport may fail.
NextNotify ==
    \/ \E isDraft, autoAccept, notifyOk \in BOOLEAN,
          outs \in [1..MAX_RETRIES -> CounterFedOutcomes] :
            createCase(Owner, TRUE, autoAccept, isDraft, FullBody, outs, notifyOk)
    \/ \E status \in {"Approved for Scheduling", "Rejected"}, n \in NoteTexts,
          saveOk, populated, notifyOk \in BOOLEAN :
            vetCase(status, n, saveOk, populated, notifyOk)
    \/ \E date \in InviteDates, time \in InviteTimes, location \in Locations,
          saveOk, populated, notifyOk \in BOOLEAN :
            scheduleCase(date, time, location, saveOk, populated, notifyOk)
    \/ \E adminResponse \in {"Accepted", "Rejected"}, saveOk, populated, notifyOk \in BOOLEAN :
            respondToUserProposal(adminResponse, saveOk, populated, notifyOk)
    \/ \E saveOk, notifyOk \in BOOLEAN : revertCaseToPending(saveOk, notifyOk)
    \/ \E resolutionStatus \in CloseWith, saveOk, populated, notifyOk \in BOOLEAN :
            closeCase(resolutionStatus, saveOk, populated, notifyOk)
    \/ \E resp \in {"Accepted", "Rejected"}, pd \in ProposedDates, pt \in ProposedTimes,
          r \in Reasons, saveOk, notifyOk \in BOOLEAN :
            respondToInvitation(Owner, resp, pd, pt, r, saveOk, notifyOk)
    \/ \E body \in {FullBody, EmptyBody}, saveOk, notifyOk \in BOOLEAN :
            updateComplaint(Owner, body, saveOk, notifyOk)
    \/ \E deleteOk \in BOOLEAN : deleteComplaint(Owner, deleteOk)

SpecNotify == Init /\ [][NextNotify]_vars

\* req.body of createCase: complete, empty, a title alone, and complete but
\* for one field.
TitleBody == Body("t1", Undefined, Undefined, Undefined)
CreateBodies ==
    {FullBody, EmptyBody, TitleBody,
     [FullBody EXCEPT !.title = Undefined], [FullBody EXCEPT !.category = Undefined],
     [FullBody EXCEPT !.desiredAction = Undefined], [FullBody EXCEPT !.narrative = Undefined]}

\* Creation of both kinds of case against a store whose saves may meet a
\* duplicate caseRef or another error and whose counter update may fail, over
\* the turn of the year; deletion makes room for the next creation.
NextCreate ==
    \/ \E verified, autoAccept, isDraft \in BOOLEAN, body \in CreateBodies,
          outs \in [1..MAX_RETRIES -> AttemptOutcomes] :
            createCase(Owner, verified, autoAccept, isDraft, body, outs, TRUE)
    \/ \E verified, isDraft \in BOOLEAN, body \in MvoiBodies,
          outs \in [1..MAX_RETRIES -> AttemptOutcomes] :
            createMvoiApplication(Owner, verified, isDraft, body, outs, TRUE)
    \/ \E user \in Users, deleteOk \in BOOLEAN : deleteComplaint(user, deleteOk)
    \/ NewYear

SpecCreate == Init /\ [][NextCreate]_vars

\* The life of one case with well-formed commands and a store that answers,
\* where the owner, another user and an admin ask for its deletion at any
\* point, by the owner's route and by the admin's.
NextDelete ==
    \/ \E isDraft, autoAccept \in BOOLEAN :
            createCase(Owner, TRUE, autoAccept, isDraft, FullBody, AllOk, TRUE)
    \/ \E status \in {"Approved for Scheduling", "Rejected"}, n \in NoteTexts :
            vetCase(status, n, TRUE, TRUE, TRUE)
    \/ \E date \in InviteDates, time \in InviteTimes, location \in Locations :
            scheduleCase(date, time, location, TRUE, TRUE, TRUE)
    \/ \E adminResponse \in {"Accepted", "Rejected"} :
            respondToUserProposal(adminResponse, TRUE, TRUE, TRUE)
    \/ revertCaseToPending(TRUE, TRUE)
    \/ \E resolutionStatus \in CloseWith : closeCase(resolutionStatus, TRUE, TRUE, TRUE)
    \/ \E resp \in {"Accepted", "Rejected"}, pd \in ProposedDates, pt \in ProposedTimes,
          r \in Reasons :
            respondToInvitation(Owner, resp, pd, pt, r, TRUE, TRUE)
    \/ updateComplaint(Owner, FullBody, TRUE, TRUE)
    \/ \E actor \in Actors, deleteOk \in BOOLEAN : deleteComplaint(actor, deleteOk)
    \/ \E actor \in Actors, complaintIds \in IdLists, evidenceOk, deleteOk \in BOOLEAN :
            bulkDeleteComplaints(actor, complaintIds, evidenceOk, deleteOk)

SpecDelete == Init /\ [][NextDelete]_vars

\* One case that an admin publishes and withdraws, and the callers of the
\* public router's sentiment route; the router puts no verifyJWT in front, so
\* req.user is not set.
NextSentiment ==
    \/ createCase(Owner, TRUE, FALSE, FALSE, FullBody, AllOk, TRUE)
    \/ \E isPublic, updateOk \in BOOLEAN : updateIsPublic(isPublic, updateOk)
    \/ \E ip \in Addresses, action \in Opt(SentimentActions), saveOk \in BOOLEAN :
            handleSentiment(Undefined, ip, action, saveOk)

SpecSentiment == Init /\ [][NextSentiment]_vars

\* The same with likePublicComplaint, the like toggle the controller exports
\* beside handleSentiment.
NextLike ==
    \/ NextSentiment
    \/ \E ip \in Addresses, allowPublicView, saveOk \in BOOLEAN :
            likePublicComplaint(Undefined, ip, allowPublicView, saveOk)

SpecLike == Init /\ [][NextLike]_vars

\* One case, created as a draft or submitted, that an admin publishes and
\* withdraws, and the readers of the public router's detail route; the router
\* puts no verifyJWT in front, so req.user is not set.
NextViews ==
    \/ \E isDraft, autoAccept \in BOOLEAN :
            createCase(Owner, TRUE, autoAccept, isDraft, FullBody, AllOk, TRUE)
    \/ \E isPublic, updateOk \in BOOLEAN : updateIsPublic(isPublic, updateOk)
    \/ \E ip \in Addresses, allowPublicView, saveOk \in BOOLEAN :
            getPublicComplaintById(Undefined, ip, allowPublicView, saveOk)

SpecViews == Init /\ [][NextViews]_vars

\* One case that an admin publishes and withdraws, with the callers of both
\* routes of the public router that write to it.
NextEngage ==
    \/ createCase(Owner, TRUE, FALSE, FALSE, FullBody, AllOk, TRUE)
    \/ \E isPublic \in BOOLEAN : updateIsPublic(isPublic, TRUE)
    \/ \E ip \in Addresses, action \in SentimentActions :
            handleSentiment(Undefined, ip, action, TRUE)
    \/ \E ip \in Addresses, allowPublicView \in BOOLEAN :
            getPublicComplaintById(Undefined, ip, allowPublicView, TRUE)

SpecEngage == Init /\ [][NextEngage]_vars

\* A body that changes the narrative and names the other fields again.
RetoldBody == [FullBody EXCEPT !.narrative = "n2"]

\* Every command that writes to a stored case, with well-formed input and a
\* store that answers: creation of either kind, the owner's and another
\* user's edit, the admin's detail update and note, the lifecycle commands,
\* publication and the sentiment of one caller.
NextFixed ==
    \/ createCase(Owner, TRUE, FALSE, FALSE, FullBody, AllOk, TRUE)
    \/ createMvoiApplication(Owner, TRUE, FALSE, FullMvoiBody, AllOk, TRUE)
    \/ \E user \in Users : updateComplaint(user, RetoldBody, TRUE, TRUE)
    \/ updateComplaintDetails(RetoldBody, TRUE)
    \/ addNote("incomplete", "Admin Only", TRUE)
    \/ \E status \in {"Approved for Scheduling", "Rejected"}, n \in NoteTexts :
            vetCase(status, n, TRUE, TRUE, TRUE)
    \/ \E date \in InviteDates \ ProposedDates, time \in InviteTimes, location \in Locations :
            scheduleCase(date, time, location, TRUE, TRUE, TRUE)
    \/ \E adminResponse \in {"Accepted", "Rejected"} :
            respondToUserProposal(adminResponse, TRUE, TRUE, TRUE)
    \/ revertCaseToPending(TRUE, TRUE)
    \/ closeCase("Resolved Successfully", TRUE, TRUE, TRUE)
    \/ \E resp \in {"Accepted", "Rejected"}, pd \in ProposedDates, pt \in ProposedTimes,
          r \in Reasons :
            respondToInvitation(Owner, resp, pd, pt, r, TRUE, TRUE)
    \/ updateIsPublic(TRUE, TRUE)
    \/ \E action \in {"LIKE", "UNLIKE"} : handleSentiment(Undefined, 1, action, TRUE)

SpecFixed == Init /\ [][NextFixed]_vars

-----------------------------------------------------------------------------
(* Properties of the reference generator *)

IssuedOf(y) == {i \in 1..Len(issued) : issued[i].year = y}

HeldOf(y) == {p \in Procs : pc[p] = "format" /\ callYear[p] = y}

\* C2: no two callers of generateCaseRef ever receive the same sequence
\* number for the same year, whatever the interleaving of their steps; both
\* the numbers already returned and the numbers held by callers that have
\* not returned yet are counted.
NoDuplicateSequence ==
    \A y \in Years :
        /\ \A i, j \in IssuedOf(y) : i # j => issued[i].seq # issued[j].seq
        /\ \A p, q \in HeldOf(y) : p # q => callSeq[p] # callSeq[q]
        /\ \A p \in HeldOf(y) : \A i \in IssuedOf(y) : callSeq[p] # issued[i].seq

\* Witness of C2: two different callers have returned a reference for the
\* same year and a third holds a number for that year.
TwoCallersSameYear ==
    \E y \in Years :
        /\ \E i, j \in IssuedOf(y) : issued[i].proc # issued[j].proc
        /\ HeldOf(y) # {}

\* C3: once all requests have returned, the sequence numbers returned for a
\* year whose counter row was absent at the start are exactly 1..N, N being
\* the number of requests served for that year.
ContiguousFromOne ==
    (\A p \in Procs : pc[p] = "idle") =>
        \A y \in Years :
            {issued[i].seq : i \in IssuedOf(y)} = 1 .. Cardinality(IssuedOf(y))

\* Witness of C3: three requests of one year overlapped and all returned.
ThreeReturnedSameYear ==
    /\ \A p \in Procs : pc[p] = "idle"
    /\ \E y \in Years :
        /\ Cardinality(IssuedOf(y)) >= 3
        /\ Cardinality({issued[i].proc : i \in IssuedOf(y)}) >= 3

-----------------------------------------------------------------------------
(* Properties of the case lifecycle *)

\* The handlers that are commands on a case.
CaseCommands == {"createCase", "vetCase", "scheduleCase", "respondToUserProposal",
                 "revertCaseToPending", "closeCase", "respondToInvitation",
                 "updateComplaint"}

Succeeded == response.op \in CaseCommands /\ response.code \in {200, 201}

HasInvitation(c) == c.invitation # Absent
HasProposal(c)   == HasInvitation(c) /\ c.invitation.userResponse # Absent

\* C1: after every successful command on a case, statusHistory is not empty
\* and the status of its last entry is the case's current status.
HistoryTracksStatus ==
    (complaint # NoCase /\ Succeeded) =>
        /\ Len(complaint.statusHistory) > 0
        /\ complaint.statusHistory[Len(complaint.statusHistory)].status = complaint.status

\* C4: when the owner's last command was a rejection of the invitation with a
\* proposal, and no admin command came in between, a further well-formed
\* response of the owner is answered 409 and leaves userResponse as it was.
SecondOwnerResponseConflicts ==
    [][ ( /\ response = [op |-> "respondToInvitation", code |-> 200]
          /\ complaint # NoCase
          /\ HasProposal(complaint)
          /\ complaint.invitation.userResponse.status = "Rejected"
          /\ \E resp \in {"Accepted", "Rejected"}, pd \in ProposedDates,
                pt \in ProposedTimes, r \in Reasons :
                    respondToInvitation(Owner, resp, pd, pt, r, TRUE, TRUE) )
        => ( /\ response'.code = 409
             /\ complaint'.invitation.userResponse = complaint.invitation.userResponse )
      ]_vars

\* C5: a Close command is answered with success only when the case was
\* Ongoing, Approved for Scheduling or Case Active; on a case in any other
\* status a well-formed Close is answered 409 and the status stays.
CloseOnlyFromOpenStatuses ==
    [][ ( /\ complaint # NoCase
          /\ complaint.status \notin {"Ongoing", "Approved for Scheduling", "Case Active"}
          /\ \E rs \in CloseWith : closeCase(rs, TRUE, TRUE, TRUE) )
        => ( response'.code = 409 /\ complaint'.status = complaint.status )
      ]_vars

\* C6: once the status of a case is Closed, no command changes it.
ClosedIsTerminal ==
    [][ (complaint # NoCase /\ complaint.status = "Closed" /\ complaint' # NoCase)
        => complaint'.status = "Closed" ]_vars

\* C7: the invitation is present exactly when the status is Approved for
\* Scheduling or Ongoing.
InvitationIffScheduling ==
    complaint # NoCase =>
        (HasInvitation(complaint)
            <=> complaint.status \in {"Approved for Scheduling", "Ongoing"})

\* C8: after a successful revertCaseToPending the case is Pending Review and
\* has no invitation.
RevertClearsInvitation ==
    response = [op |-> "revertCaseToPending", code |-> 200] =>
        (complaint.status = "Pending Review" /\ ~HasInvitation(complaint))

\* C9: resolutionStatus is defined exactly when the status is Closed.
ResolutionIffClosed ==
    complaint # NoCase =>
        (complaint.resolutionStatus # Undefined <=> complaint.status = "Closed")

\* C10: resolutionStatus is written at most once in the life of a case, in
\* the step that moves the status to Closed, and keeps its value afterwards.
ResolutionWrittenOnce ==
    [][ (complaint # NoCase /\ complaint' # NoCase
            /\ complaint'.resolutionStatus # complaint.resolutionStatus)
        => ( /\ complaint.resolutionStatus = Undefined
             /\ complaint.status # "Closed"
             /\ complaint'.status = "Closed" ) ]_vars

-----------------------------------------------------------------------------
(* Properties of vetting and of the scheduling negotiation *)

\* C11: a well-formed approval or rejection (vetCase) of a case whose status
\* is not Pending Review is answered 409 and leaves the case as it was.
VetOnlyFromPendingReview ==
    [][ ( /\ complaint # NoCase
          /\ complaint.status # "Pending Review"
          /\ \E status \in {"Approved for Scheduling", "Rejected"}, n \in NoteTexts :
                vetCase(status, n, TRUE, TRUE, TRUE) )
        => ( response'.code = 409 /\ complaint' = complaint )
      ]_vars

\* The owner's answer on file is a rejection that carries a proposal.
ProposalOutstanding(c) ==
    /\ c # NoCase
    /\ HasProposal(c)
    /\ c.invitation.userResponse.status = "Rejected"

\* C12: when the admin accepts an outstanding owner proposal, the saved case
\* has no userResponse, its invitation carries the date and the time the
\* owner had proposed, and its status is Ongoing.
AcceptedProposalAdopted ==
    [][ (ProposalOutstanding(complaint) /\ respondToUserProposal("Accepted", TRUE, TRUE, TRUE))
        => ( /\ response' = [op |-> "respondToUserProposal", code |-> 200]
             /\ complaint'.invitation.userResponse = Absent
             /\ complaint'.invitation.date = complaint.invitation.userResponse.proposedDate
             /\ complaint'.invitation.time = complaint.invitation.userResponse.proposedTime
             /\ complaint'.invitation.location = complaint.invitation.location
             /\ complaint'.status = "Ongoing" )
      ]_vars

\* Witness of C12: the admin has just accepted a proposal and the invitation
\* now carries the proposed date and time, which differ from an invited pair.
ProposalWasAccepted ==
    /\ response = [op |-> "respondToUserProposal", code |-> 200]
    /\ complaint.status = "Ongoing"
    /\ complaint.statusHistory[Len(complaint.statusHistory)].status = "Scheduled"
    /\ complaint.invitation.userResponse = Absent
    /\ complaint.invitation.date \in ProposedDates
    /\ complaint.invitation.time \in ProposedTimes \ InviteTimes

\* C13 as stated: userResponse is on file only as an unresolved rejection,
\* never after an acceptance and never while the status is Ongoing.
UserResponseOnlyWhileRejected ==
    (complaint # NoCase /\ HasProposal(complaint)) =>
        /\ complaint.invitation.userResponse.status = "Rejected"
        /\ complaint.status # "Ongoing"

\* C13 amended: userResponse comes on file, or changes, only in a successful
\* respondToInvitation; it is absent after a successful respondToUserProposal
\* and after a scheduleCase that replaced the invitation; and after the owner
\* accepts an invitation it is on file with status Accepted while the status
\* of the case is Ongoing.
UserResponseFromOwnerUntilAdmin ==
    [][ complaint' # NoCase =>
        /\ ( /\ HasProposal(complaint')
             /\ \/ complaint = NoCase
                \/ ~HasProposal(complaint)
                \/ complaint'.invitation.userResponse # complaint.invitation.userResponse )
           => response' = [op |-> "respondToInvitation", code |-> 200]
        /\ response' = [op |-> "respondToUserProposal", code |-> 200]
           => ~HasProposal(complaint')
        /\ (response'.op = "scheduleCase" /\ complaint' # complaint)
           => ~HasProposal(complaint')
        /\ ( /\ complaint # NoCase
             /\ \E r \in Reasons :
                    respondToInvitation(Owner, "Accepted", Undefined, Undefined, r, TRUE, TRUE)
             /\ response'.code = 200 )
           => ( /\ HasProposal(complaint')
                /\ complaint'.invitation.userResponse.status = "Accepted"
                /\ complaint'.invitation.userResponse.proposedDate = Undefined
                /\ complaint'.status = "Ongoing" )
      ]_vars

\* Witness of C13: the owner has just accepted an invitation; the case is
\* Ongoing and the acceptance is on file.
OwnerAcceptanceOnFile ==
    /\ response = [op |-> "respondToInvitation", code |-> 200]
    /\ complaint.status = "Ongoing"
    /\ HasProposal(complaint)
    /\ complaint.invitation.userResponse.status = "Accepted"

\* C14: an owner response succeeds only on an invitation that has no answer
\* on file yet, and an admin response to a proposal succeeds only on a
\* rejection of the owner that is still on file.
NegotiationInOrder ==
    [][ complaint # NoCase =>
        /\ response' = [op |-> "respondToInvitation", code |-> 200]
           => (HasInvitation(complaint) /\ ~HasProposal(complaint))
        /\ response' = [op |-> "respondToUserProposal", code |-> 200]
           => ProposalOutstanding(complaint)
      ]_vars

\* C15: when the admin rejects an outstanding owner proposal, the saved case
\* has no userResponse, the date, time and location of its invitation are
\* those it had, and its status is the one it had: a case that was Approved
\* for Scheduling remains so.
RejectedProposalOnlyCleared ==
    [][ (ProposalOutstanding(complaint) /\ respondToUserProposal("Rejected", TRUE, TRUE, TRUE))
        => ( /\ response' = [op |-> "respondToUserProposal", code |-> 200]
             /\ complaint'.invitation.userResponse = Absent
             /\ complaint'.invitation.date = complaint.invitation.date
             /\ complaint'.invitation.time = complaint.invitation.time
             /\ complaint'.invitation.location = complaint.invitation.location
             /\ complaint'.status = complaint.status
             /\ complaint.status = "Approved for Scheduling"
                    => complaint'.status = "Approved for Scheduling" )
      ]_vars

\* Witness of C15: the admin has just rejected a proposal made against an
\* invitation for the date that was not proposed; the case is Approved for
\* Scheduling with that invitation and no userResponse.
ProposalWasRejected ==
    /\ response = [op |-> "respondToUserProposal", code |-> 200]
    /\ complaint.status = "Approved for Scheduling"
    /\ complaint.statusHistory[Len(complaint.statusHistory)].notes
            = "Admin rejected user's proposed time."
    /\ complaint.invitation.userResponse = Absent
    /\ complaint.invitation.date \in InviteDates \ ProposedDates
    /\ complaint.invitation.time \in InviteTimes

-----------------------------------------------------------------------------
(* Properties of creation and of the owner's edits *)

\* The creations below are those whose first save succeeds (AllOk): with
\* references fed by the counter alone no save meets a duplicate key, so
\* every creation answered 201 is one of them.

ResubmittedNote == "Complaint was edited and resubmitted by the user after rejection."

\* C17: an edit by the owner of a case that is Rejected and carries the
\* admin's rejection note is answered 200, moves the case to Pending Review,
\* appends exactly one statusHistory entry, of status Pending Review with the
\* resubmission note, and leaves the notes of the case as they were.
ResubmitAfterRejection ==
    [][ ( /\ complaint # NoCase
          /\ complaint.status = "Rejected"
          /\ complaint.notes # <<>>
          /\ \E body \in {FullBody, EmptyBody} : updateComplaint(Owner, body, TRUE, TRUE) )
        => ( /\ response' = [op |-> "updateComplaint", code |-> 200]
             /\ complaint'.status = "Pending Review"
             /\ complaint'.statusHistory =
                    Append(complaint.statusHistory,
                           [status |-> "Pending Review", notes |-> ResubmittedNote])
             /\ complaint'.notes = complaint.notes )
      ]_vars

\* Witness of C17: the owner has just resubmitted a case that the admin had
\* rejected with the note "incomplete"; the note is still on the case.
ResubmittedWithNoteKept ==
    /\ response = [op |-> "updateComplaint", code |-> 200]
    /\ complaint.status = "Pending Review"
    /\ complaint.statusHistory[Len(complaint.statusHistory)]
            = [status |-> "Pending Review", notes |-> ResubmittedNote]
    /\ Len(complaint.notes) = 1
    /\ complaint.notes[1] = [content |-> "incomplete", author |-> Admin,
                             visibility |-> "User Visible"]

\* The fields createCase demands of a case that is not a draft.
RequiredFieldsPresent(c) ==
    /\ Truthy(c.title)
    /\ Truthy(c.category)
    /\ Truthy(c.desiredAction)
    /\ Truthy(c.narrative)

\* C18: an edit by the owner of a Draft case after which title, category,
\* desired action and narrative are all present moves the case to Pending
\* Review and appends a statusHistory entry of status Pending Review.
DraftIsFinalized ==
    [][ ( /\ complaint # NoCase
          /\ complaint.status = "Draft"
          /\ \E body \in {FullBody, EmptyBody} : updateComplaint(Owner, body, TRUE, TRUE)
          /\ RequiredFieldsPresent(complaint') )
        => ( /\ complaint'.status = "Pending Review"
             /\ Len(complaint'.statusHistory) = Len(complaint.statusHistory) + 1
             /\ complaint'.statusHistory[Len(complaint'.statusHistory)].status
                    = "Pending Review" )
      ]_vars

NarrativeOrCategoryChanges ==
    /\ complaint # NoCase
    /\ complaint' # NoCase
    /\ \/ complaint'.narrative # complaint.narrative
       \/ complaint'.category # complaint.category

OwnerEditsWhileEditable ==
    /\ complaint.status \in {"Draft", "Pending Review", "Rejected"}
    /\ \E body \in EditBodies : updateComplaint(complaint.complainant, body, TRUE, TRUE)

FailedCommandChangesNothing ==
    [][ (complaint # NoCase /\ response'.code >= 400)
        => ( /\ complaint' # NoCase
             /\ complaint'.status = complaint.status
             /\ complaint'.statusHistory = complaint.statusHistory
             /\ complaint'.invitation = complaint.invitation
             /\ complaint'.notes = complaint.notes
             /\ complaint'.resolutionStatus = complaint.resolutionStatus )
      ]_vars

-----------------------------------------------------------------------------
(* Properties of notification, creation and vetting failures *)

Creations == {"createCase", "createMvoiApplication"}

\* A stored case as a creation builds it: reference, title, status and the
\* one history entry.
CompleteRecord(c) ==
    /\ c # NoCase
    /\ c.caseRef.year = currentYear
    /\ Len(c.caseRef.digits) = 4
    /\ Truthy(c.title)
    /\ c.status \in {"Draft", "Pending Review", "Approved for Scheduling"}
    /\ Len(c.statusHistory) = 1
    /\ c.statusHistory[1].status \in {"Draft", "Pending Review"}

\* A step of createCase or createMvoiApplication: they alone answer under
\* these names, and they start from an empty slot.
CreationStep ==
    /\ complaint = NoCase
    /\ response'.op \in Creations
    /\ <<complaint, response, counters>>' # <<complaint, response, counters>>

\* C22: a creation of either kind stores a record, and then a complete one,
\* exactly when it answers 201; when its reference issuance or its save
\* fails it answers with an error and leaves no case record.
CreationAllOrNothing ==
    [][ CreationStep =>
            IF response'.code = 201
            THEN CompleteRecord(complaint')
            ELSE response'.code >= 400 /\ complaint' = NoCase
      ]_vars

\* Witness of C22: a creation drew a reference, its save failed, the actor
\* was answered 500 and no case is stored.
CreationFailedAfterReference ==
    /\ response.op \in Creations
    /\ response.code = 500
    /\ complaint = NoCase
    /\ HasCounter(counters, currentYear)


\* The first save collides on caseRef; a second attempt would go through.
DuplicateThenOk == <<"duplicate", "ok", "ok">>

\* C23: for either kind of case, a creation whose first save hits a caseRef
\* uniqueness violation asks for a fresh reference and retries, so that it
\* succeeds when the next attempt goes through.
DuplicateRetriedForEitherKind ==
    [][ \A isDraft \in BOOLEAN :
          ( \/ createCase(Owner, TRUE, TRUE, isDraft, FullBody, DuplicateThenOk, TRUE)
            \/ createMvoiApplication(Owner, TRUE, isDraft, FullMvoiBody, DuplicateThenOk, TRUE) )
          => /\ response'.code = 201
             /\ complaint' # NoCase
             /\ counters'[currentYear] = (IF HasCounter(counters, currentYear) THEN counters[currentYear] ELSE 0) + 2
      ]_vars

\* C24: a createCase that is not a draft and lacks title, category, desired
\* action or narrative, or that comes from an unverified owner, fails and
\* creates no case; a draft that carries a title, whatever else it lacks, is
\* created as a Draft when nothing else goes wrong.
SubmitGuarded ==
    [][ \A verified, autoAccept, isDraft \in BOOLEAN, body \in CreateBodies :
          createCase(Owner, verified, autoAccept, isDraft, body, AllOk, TRUE)
          => IF \/ ~verified
                \/ ~isDraft /\ ( \/ ~Truthy(body.title) \/ ~Truthy(body.category)
                                 \/ ~Truthy(body.desiredAction) \/ ~Truthy(body.narrative) )
             THEN response'.code >= 400 /\ complaint' = NoCase
             ELSE isDraft /\ Truthy(body.title)
                  => response'.code = 201 /\ complaint' # NoCase /\ complaint'.status = "Draft"
      ]_vars

\* C25: a vetCase to Rejected without a note answers 400 and leaves the case,
\* status and notes included, as it was; one that answers 200 has set the
\* status to Rejected and appended exactly one note, visible to the owner,
\* with the content that was sent.
RejectRequiresNote ==
    [][ \A noteContent \in Opt(NoteTexts) :
          response'.op = "vetCase" /\ vetCase("Rejected", noteContent, TRUE, TRUE, TRUE)
          => IF ~Truthy(noteContent)
             THEN response'.code = 400 /\ complaint' = complaint
             ELSE response'.code = 200
                  => /\ complaint'.status = "Rejected"
                     /\ complaint'.notes
                          = Append(complaint.notes,
                                   [content |-> noteContent, author |-> Admin,
                                    visibility |-> "User Visible"])
      ]_vars

\* Witness of C25: a rejection went through and its note is on file.
RejectedWithNote ==
    /\ response = [op |-> "vetCase", code |-> 200]
    /\ complaint # NoCase
    /\ complaint.status = "Rejected"
    /\ Len(complaint.notes) >= 1
    /\ complaint.notes[Len(complaint.notes)].visibility = "User Visible"

\* C26: whatever the status of the case, deleteComplaint by its owner and
\* bulkDeleteComplaints by an admin remove it, and deleteComplaint by a user
\* who is neither answers 403 and leaves the case as it was; the admin route
\* answers 403 to every account that is not admin or staff.
DeletionIgnoresStatus ==
    [][ \A actor \in Actors :
          complaint # NoCase /\ response'.op \in {"deleteComplaint", "bulkDeleteComplaints"}
          => /\ actor # Admin /\ deleteComplaint(actor, TRUE)
                => IF actor = complaint.complainant
                   THEN response'.code = 200 /\ complaint' = NoCase
                   ELSE response'.code = 403 /\ complaint' = complaint
             /\ bulkDeleteComplaints(actor, {TheCase}, TRUE, TRUE)
                => IF actor = Admin
                   THEN response'.code = 200 /\ complaint' = NoCase
                   ELSE response'.code = 403 /\ complaint' = complaint
      ]_vars

\* Witness of C26: an admin removed a case that had been issued a reference.
CaseDeletedByAdmin ==
    /\ response = [op |-> "bulkDeleteComplaints", code |-> 200]
    /\ complaint = NoCase
    /\ HasCounter(counters, currentYear)

\* C27: whatever sentiment actions the callers of the sentiment route have
\* sent, no identifier is in likedBy and in dislikedBy of the case at once.
NoIdentifierInBoth ==
    complaint # NoCase
    => \A i \in 1..Len(complaint.likedBy), j \in 1..Len(complaint.dislikedBy) :
            complaint.likedBy[i] # complaint.dislikedBy[j]

\* Witness of C27: an identifier that was in dislikedBy sent LIKE and is now
\* in likedBy.
SwitchedToLike ==
    /\ trail # <<>>
    /\ trail[Len(trail)].action = "LIKE"
    /\ trail[Len(trail)].hasDisliked
    /\ includes(complaint.likedBy, trail[Len(trail)].identifier)

Range(array) == {array[i] : i \in 1..Len(array)}

\* C28: the stored likes is the number of identifiers in likedBy and the
\* stored dislikes the number in dislikedBy, after every call of
\* handleSentiment and of likePublicComplaint.
CountsMatchArrays ==
    complaint # NoCase
    => /\ complaint.likes = Len(complaint.likedBy)
       /\ complaint.likes = Cardinality(Range(complaint.likedBy))
       /\ complaint.dislikes = Len(complaint.dislikedBy)
       /\ complaint.dislikes = Cardinality(Range(complaint.dislikedBy))

\* Witness of C28: a sentiment call left likes and dislikes on the case.
CountsAfterSentiment ==
    /\ response = [op |-> "handleSentiment", code |-> 200]
    /\ complaint # NoCase
    /\ complaint.likes >= 1
    /\ complaint.dislikes >= 1

\* The count an action is about.
CountOf(counts, action) ==
    IF action \in {"LIKE", "UNLIKE"} THEN counts.likes ELSE counts.dislikes

Undo(action) == IF action = "LIKE" THEN "UNLIKE" ELSE "UNDISLIKE"

\* Calls i and i+1 of the trail are both the action a.
Twice(i, a) == trail[i].action = a /\ trail[i + 1].action = a

\* The second of two equal calls in a row leaves the count where the first
\* left it.
SecondCallChangesNothing ==
    \A i \in 1..(Len(trail) - 1), a \in {"LIKE", "DISLIKE"} :
        Twice(i, a) => CountOf(trail[i + 1].after, a) = CountOf(trail[i].after, a)

\* C29 as stated: LIKE twice from one identifier leaves likes at its value
\* after the first LIKE, and a following UNLIKE from that identifier returns
\* likes to its value before the first LIKE; likewise DISLIKE and UNDISLIKE
\* with dislikes.
LikeTwiceThenUnlikeRestores ==
    /\ SecondCallChangesNothing
    /\ \A i \in 1..(Len(trail) - 2), a \in {"LIKE", "DISLIKE"} :
          Twice(i, a) /\ trail[i + 2].action = Undo(a)
          => CountOf(trail[i + 2].after, a) = CountOf(trail[i].before, a)

\* C29, corrected: the same, where the following UNLIKE returns likes to its
\* value before the first LIKE provided the identifier was not in likedBy
\* when it sent that first LIKE (likewise for dislikedBy).
LikeTwiceThenUnlikeRestoresIfNew ==
    /\ SecondCallChangesNothing
    /\ \A i \in 1..(Len(trail) - 2), a \in {"LIKE", "DISLIKE"} :
          /\ Twice(i, a) /\ trail[i + 2].action = Undo(a)
          /\ ~(IF a = "LIKE" THEN trail[i].hasLiked ELSE trail[i].hasDisliked)
          => CountOf(trail[i + 2].after, a) = CountOf(trail[i].before, a)

\* Witness of C29: an identifier that was not in likedBy sent LIKE, LIKE and
\* UNLIKE; the first raised likes and the last brought it back.
LikedTwiceThenUnliked ==
    /\ Len(trail) = 3
    /\ Twice(1, "LIKE") /\ trail[3].action = "UNLIKE"
    /\ ~trail[1].hasLiked
    /\ trail[1].after.likes = trail[1].before.likes + 1
    /\ trail[3].after.likes = trail[1].before.likes

Engagement(c) == <<c.views, c.likes, c.dislikes, c.likedBy, c.dislikedBy, c.viewedBy>>

\* C31: while a stored case is not public no step changes its views, likes,
\* dislikes, likedBy, dislikedBy or viewedBy, and a sentiment or view request
\* against it is answered with an error and leaves the case as it was.
EngagementOnlyWhilePublic ==
    [][ complaint # NoCase /\ ~complaint.isPublic
        => /\ complaint' # NoCase => Engagement(complaint') = Engagement(complaint)
           /\ response'.op \in {"handleSentiment", "getPublicComplaintById"}
              => response'.code >= 400 /\ complaint' = complaint
      ]_vars

\* Witness of C31: a case that gathered a like and a view while public was
\* withdrawn, and a sentiment request against it was refused.
SentimentRefusedOnWithdrawnCase ==
    /\ response = [op |-> "handleSentiment", code |-> 404]
    /\ complaint # NoCase
    /\ ~complaint.isPublic
    /\ complaint.likes >= 1
    /\ complaint.views >= 1

\* C32: as long as a case is stored, no command changes its caseRef, its
\* type or its complainant.
IdentityFixed ==
    [][ complaint # NoCase /\ complaint' # NoCase
        => /\ complaint'.caseRef = complaint.caseRef
           /\ complaint'.type = complaint.type
           /\ complaint'.complainant = complaint.complainant
      ]_vars

\* Witness of C32: an application that was retold, noted, liked and closed
\* still carries the first reference of the year, its kind and its owner.
ClosedApplicationKeepsIdentity ==
    /\ complaint # NoCase
    /\ complaint.status = "Closed"
    /\ complaint.narrative = "n2"
    /\ Len(complaint.notes) >= 1
    /\ complaint.likes >= 1
    /\ complaint.type = "MVOI"
    /\ complaint.complainant = Owner
    /\ complaint.caseRef = FormatCaseRef(currentYear, 1)

\* a is b's beginning.
IsPrefix(a, b) == Len(a) <= Len(b) /\ SubSeq(b, 1, Len(a)) = a

\* C33: for every command on a stored case, the statusHistory before it is a
\* prefix of the statusHistory after it.
HistoryAppendOnly ==
    [][ complaint # NoCase /\ complaint' # NoCase
        => IsPrefix(complaint.statusHistory, complaint'.statusHistory)
      ]_vars

\* Witness of C33: a revert added its entry behind the entry of the creation.
RevertAppended ==
    /\ response = [op |-> "revertCaseToPending", code |-> 200]
    /\ complaint # NoCase
    /\ Len(complaint.statusHistory) >= 2
    /\ complaint.statusHistory[1].notes = Undefined
    /\ complaint.statusHistory[Len(complaint.statusHistory)].notes = "Case reverted by admin."

-----------------------------------------------------------------------------
(* Two handler calls on one case side by side.  A handler reads the        *)
(* document with findById, changes its copy and writes with save(); save() *)
(* sends the paths the handler changed: an assigned path is $set, a push   *)
(* onto an array is a $push that bumps the document's version, and an      *)
(* array that was assigned as a whole is $set under the version that was   *)
(* read, so that the save throws when the version has moved.               *)

Quiet == inflight = NoRace

\* The status the handler answers with after its read when it does not save,
\* 0 when it goes on to save.
Refusal(call, c) ==
    CASE call.op = "scheduleCase" ->
            IF c = NoCase THEN 404
            ELSE IF c.status \notin {"Pending Review", "Approved for Scheduling"} THEN 409
            ELSE 0
      [] call.op = "closeCase" -> IF c = NoCase THEN 404 ELSE 0
      [] call.op = "respondToInvitation" ->
            IF c = NoCase \/ c.invitation = Absent THEN 404
            ELSE IF c.complainant # call.user THEN 403
            ELSE 0
      [] call.op = "handleSentiment" -> IF c = NoCase \/ ~c.isPublic THEN 404 ELSE 0

\* The handler's changes on the document it read.
Changes(call, c) ==
    CASE call.op = "scheduleCase" -> scheduleCaseDoc(c, call.date, call.time, call.location)
      [] call.op = "closeCase" -> closeCaseDoc(c, call.resolutionStatus)
      [] call.op = "respondToInvitation" ->
            respondToInvitationDoc(c, call.response, call.proposedDate, call.proposedTime,
                                   call.reason)
      [] call.op = "handleSentiment" -> handleSentimentDoc(c, sha256(call.ip), call.action)

\* The handler from its read to its save with nothing in between.
Serve(call, c) == IF Refusal(call, c) # 0 THEN c ELSE Changes(call, c)

\* The arrays the handler pushed onto, and the arrays it assigned.
Pushed(call, read) ==
    CASE call.op = "respondToInvitation" ->
            IF call.response = "Accepted" THEN {"statusHistory"} ELSE {}
      [] call.op = "handleSentiment" ->
            {a \in {"likedBy", "dislikedBy"} :
                Len(Changes(call, read)[a]) > Len(read[a])}
      [] OTHER -> {}

Assigned(call, read) ==
    CASE call.op = "handleSentiment" ->
            {a \in {"likedBy", "dislikedBy"} :
                Len(Changes(call, read)[a]) < Len(read[a])}
      [] OTHER -> {}

\* What save() leaves in the store: the changed paths of the handler's copy
\* on top of the stored document.
Stored(call, read, stored) ==
    IF call.op = "handleSentiment"
    THEN LET local == Changes(call, read)
             array(a) == IF a \in Pushed(call, read)
                         THEN Append(stored[a], sha256(call.ip))
                         ELSE IF a \in Assigned(call, read) THEN local[a]
                         ELSE stored[a]
         IN  [stored EXCEPT !.likedBy    = array("likedBy"),
                            !.dislikedBy = array("dislikedBy"),
                            !.likes    = IF local.likes # read.likes THEN local.likes ELSE @,
                            !.dislikes = IF local.dislikes # read.dislikes
                                         THEN local.dislikes ELSE @]
    ELSE Changes(call, stored)

\* Call i reads the case.  The first read of two marks the document both
\* calls start from.
findById(i, call) ==
    /\ inflight.calls[i] = Idle
    /\ complaint # NoCase
    /\ inflight' = [base    |-> IF Quiet THEN complaint ELSE inflight.base,
                    version |-> inflight.version,
                    calls   |-> [inflight.calls EXCEPT ![i] =
                                    [pc |-> "read", call |-> call, read |-> complaint,
                                     version |-> inflight.version]]]
    /\ UNCHANGED <<complaint, response, logged, trail, currentYear, counters, refVars>>

\* Call i goes from its read to its answer: it refuses on what it read, or
\* it saves its changes.
save(i) ==
    /\ inflight.calls[i].pc = "read"
    /\ LET k       == inflight.calls[i]
           refusal == Refusal(k.call, k.read)
           moved   == Assigned(k.call, k.read) # {} /\ k.version # inflight.version
           code    == IF refusal # 0 THEN refusal ELSE IF moved THEN 500 ELSE 200
           bumps   == Pushed(k.call, k.read) \cup Assigned(k.call, k.read) # {}
       IN  /\ "statusHistory" \in Pushed(k.call, k.read)
                => Len(complaint.statusHistory) < MaxHistory
           /\ complaint' = IF code = 200 THEN Stored(k.call, k.read, complaint)
                           ELSE complaint
           /\ inflight' = [inflight EXCEPT
                             !.version = IF code = 200 /\ bumps THEN @ + 1 ELSE @,
                             !.calls[i] = [pc |-> "done", call |-> k.call, code |-> code]]
           /\ Respond(k.call.op, code)
    /\ UNCHANGED <<currentYear, counters, refVars>>

\* Both calls are through.
Answered ==
    /\ ~Quiet
    /\ \A i \in 1..2 : inflight.calls[i].pc # "read"
    /\ inflight' = NoRace
    /\ UNCHANGED <<complaint, response, logged, trail, currentYear, counters, refVars>>

BothAnswered == \A i \in 1..2 : inflight.calls[i].pc = "done"

\* The documents the two calls leave when one runs after the other.
SerialOutcomes ==
    LET a == inflight.calls[1].call
        b == inflight.calls[2].call
    IN  {Serve(b, Serve(a, inflight.base)), Serve(a, Serve(b, inflight.base))}

\* The admin's calls and the owner's call that meet on a case.
AdminCalls ==
    {[op |-> "scheduleCase", date |-> "d2", time |-> "t1", location |-> "office"]}
    \cup {[op |-> "closeCase", resolutionStatus |-> r] : r \in CloseWith}

OwnerCalls ==
    {[op |-> "respondToInvitation", user |-> Owner, response |-> "Accepted",
      proposedDate |-> Undefined, proposedTime |-> Undefined, reason |-> Undefined],
     [op |-> "respondToInvitation", user |-> Owner, response |-> "Rejected",
      proposedDate |-> "d2", proposedTime |-> "t2", reason |-> "busy"]}

\* A case is filed, approved and invited for one call at a time; then an
\* admin's call and the owner's answer run side by side.
NextRace ==
    \/ Quiet /\ \E isDraft \in BOOLEAN :
                    createCase(Owner, TRUE, FALSE, isDraft, FullBody, AllOk, TRUE)
    \/ Quiet /\ vetCase("Approved for Scheduling", Undefined, TRUE, TRUE, TRUE)
    \/ Quiet /\ scheduleCase("d1", "t1", "office", TRUE, TRUE, TRUE)
    \/ Quiet /\ revertCaseToPending(TRUE, TRUE)
    \/ \E call \in AdminCalls : findById(1, call)
    \/ \E call \in OwnerCalls : findById(2, call)
    \/ \E i \in 1..2 : save(i)
    \/ Answered

SpecRace == Init /\ [][NextRace]_vars

\* C34: when an admin's call and the owner's answer on one case have both
\* been answered, the stored case is one that the two calls leave when one
\* runs after the other.
RaceIsSerializable == BothAnswered => complaint \in SerialOutcomes

\* The sentiment request of the caller at address ip.
SentimentCalls(ip) ==
    {[op |-> "handleSentiment", ip |-> ip, action |-> action] : action \in SentimentActions}

\* One public case, and time after time a sentiment request from address 1
\* and one from address 2 that run one after the other or side by side.
NextSentimentRace ==
    \/ Quiet /\ createCase(Owner, TRUE, FALSE, FALSE, FullBody, AllOk, TRUE)
    \/ Quiet /\ updateIsPublic(TRUE, TRUE)
    \/ \E i \in 1..2 : \E call \in SentimentCalls(i) : findById(i, call)
    \/ \E i \in 1..2 : save(i)
    \/ Answered

SpecSentimentRace == Init /\ [][NextSentimentRace]_vars

\* The choice of call k shows in the arrays of c.
Shows(k, c) ==
    LET identifier == sha256(k.call.ip)
    IN  CASE k.call.action = "LIKE"      -> includes(c.likedBy, identifier)
          [] k.call.action = "DISLIKE"   -> includes(c.dislikedBy, identifier)
          [] k.call.action = "UNLIKE"    -> ~includes(c.likedBy, identifier)
          [] k.call.action = "UNDISLIKE" -> ~includes(c.dislikedBy, identifier)

\* C35: when two sentiment requests from different identifiers on one case
\* have both been answered 200, the arrays show the choice of each and likes
\* and dislikes are the sizes of likedBy and dislikedBy.
BothSentimentsCount ==
    BothAnswered /\ (\A i \in 1..2 : inflight.calls[i].code = 200)
    => /\ \A i \in 1..2 : Shows(inflight.calls[i], complaint)
       /\ complaint.likes = Len(complaint.likedBy)
       /\ complaint.dislikes = Len(complaint.dislikedBy)

\* C36: an invitation by the admin that is answered 200 leaves the case in
\* 'Approved for Scheduling' with an invitation that holds the date, time and
\* location of the request and no userResponse, whatever invitation and
\* proposal were on file.
InviteReplacesInvitation ==
    [][ \A date \in InviteDates, time \in InviteTimes, location \in Locations :
            /\ response'.op = "scheduleCase"
            /\ response'.code = 200
            /\ scheduleCase(date, time, location, TRUE, TRUE, TRUE)
            => /\ complaint'.status = "Approved for Scheduling"
               /\ complaint'.invitation = [date |-> date, time |-> time,
                                           location |-> location, userResponse |-> Absent]
      ]_vars

\* Witness of C36: the admin has invited for d2 and no answer of the owner
\* is on file.
InvitedAfresh ==
    /\ response = [op |-> "scheduleCase", code |-> 200]
    /\ complaint # NoCase
    /\ complaint.status = "Approved for Scheduling"
    /\ complaint.invitation # Absent
    /\ complaint.invitation.date = "d2"
    /\ complaint.invitation.userResponse = Absent

\* The invitation of one case: the admin's invitations with fields sent or
\* left out, the answers of the owner and of another user, well-formed or
\* not, and the admin's answers to a proposal, in every status the lifecycle
\* commands lead to.
NextInvite ==
    \/ \E isDraft, autoAccept \in BOOLEAN :
            createCase(Owner, TRUE, autoAccept, isDraft, FullBody, AllOk, TRUE)
    \/ \E status \in {"Approved for Scheduling", "Rejected"}, n \in NoteTexts :
            vetCase(status, n, TRUE, TRUE, TRUE)
    \/ \E date \in Opt(InviteDates), time \in Opt(InviteTimes), location \in Opt(Locations) :
            scheduleCase(date, time, location, TRUE, TRUE, TRUE)
    \* the admin's answer may add one entry to a full statusHistory
    \/ \E adminResponse \in {"Accepted", "Rejected"} :
            respondToUserProposalUpTo(MaxHistory + 1, adminResponse, TRUE, TRUE, TRUE)
    \/ revertCaseToPending(TRUE, TRUE)
    \/ closeCase("Resolved Successfully", TRUE, TRUE, TRUE)
    \/ \E user \in Users, resp \in Opt({"Accepted", "Rejected"}) :
        \E proposedDate \in IF resp = "Rejected" THEN Opt(ProposedDates) ELSE {Undefined},
           proposedTime \in IF resp = "Rejected" THEN Opt(ProposedTimes) ELSE {Undefined} :
            respondToInvitation(user, resp, proposedDate, proposedTime, "busy", TRUE, TRUE)
    \/ deleteComplaint(Owner, TRUE)

SpecInvite == Init /\ [][NextInvite]_vars

\* C37: an invitation request with a date, time or location missing is
\* answered 400, one on a case that is in neither 'Pending Review' nor
\* 'Approved for Scheduling' is answered 409, both leave the case as it was,
\* and a request that changes the case came with all three fields to a case
\* in one of the two statuses.
ScheduleGuarded ==
    [][ \A date \in Opt(InviteDates), time \in Opt(InviteTimes), location \in Opt(Locations) :
            /\ response'.op = "scheduleCase"
            /\ scheduleCase(date, time, location, TRUE, TRUE, TRUE)
            => LET missing == date = Undefined \/ time = Undefined \/ location = Undefined
                   open    == /\ complaint # NoCase
                              /\ complaint.status \in {"Pending Review",
                                                       "Approved for Scheduling"}
               IN  /\ missing => response'.code = 400 /\ complaint' = complaint
                   /\ ~missing /\ complaint # NoCase /\ ~open
                        => response'.code = 409 /\ complaint' = complaint
                   /\ complaint' # complaint => ~missing /\ open
      ]_vars

\* Witness of C37: an invitation for a case that the owner's acceptance had
\* taken to 'Ongoing' was answered 409, and the accepted invitation is on
\* file.
InviteRefusedOnOngoingCase ==
    /\ response = [op |-> "scheduleCase", code |-> 409]
    /\ complaint # NoCase
    /\ complaint.status = "Ongoing"
    /\ complaint.invitation # Absent
    /\ complaint.invitation.userResponse # Absent
    /\ complaint.invitation.userResponse.status = "Accepted"

\* An answer to the invitation from the user who is not the owner.
StrangerResponds(resp, proposedDate, proposedTime) ==
    /\ response'.op = "respondToInvitation"
    /\ respondToInvitation("other", resp, proposedDate, proposedTime, "busy", TRUE, TRUE)

\* C38 as stated: an answer to the invitation from a user who is not the
\* owner is answered 403 and leaves status, statusHistory and invitation as
\* they were.
StrangerForbidden ==
    [][ \A resp \in Opt({"Accepted", "Rejected"}), proposedDate \in Opt(ProposedDates),
           proposedTime \in Opt(ProposedTimes) :
            StrangerResponds(resp, proposedDate, proposedTime)
            => /\ response'.code = 403
               /\ complaint' = complaint
      ]_vars

\* C38: an answer to the invitation from a user who is not the owner is
\* refused with 400, 404 or 403 and leaves the case as it was; it is answered
\* 403 when it is well-formed and the case has an invitation.
StrangerRefused ==
    [][ \A resp \in Opt({"Accepted", "Rejected"}), proposedDate \in Opt(ProposedDates),
           proposedTime \in Opt(ProposedTimes) :
            StrangerResponds(resp, proposedDate, proposedTime)
            => LET wellFormed ==
                       \/ resp = "Accepted"
                       \/ resp = "Rejected" /\ proposedDate # Undefined
                                            /\ proposedTime # Undefined
               IN  /\ response'.code \in {400, 404, 403}
                   /\ complaint' = complaint
                   /\ wellFormed /\ complaint # NoCase /\ HasInvitation(complaint)
                        => response'.code = 403
      ]_vars

\* Witness of C38: an answer to an open invitation was refused with 403, and
\* the invitation carries no answer.
StrangerTurnedAway ==
    /\ response = [op |-> "respondToInvitation", code |-> 403]
    /\ complaint # NoCase
    /\ complaint.status = "Approved for Scheduling"
    /\ complaint.invitation # Absent
    /\ complaint.invitation.userResponse = Absent

\* Creations of a complete case against a store whose saves and counter
\* updates may fail in every way, over the turn of the year.
NextRetry ==
    \/ \E isDraft \in BOOLEAN, outs \in [1..MAX_RETRIES -> AttemptOutcomes] :
            createCase(Owner, TRUE, FALSE, isDraft, FullBody, outs, TRUE)
    \/ \E user \in Users : deleteComplaint(user, TRUE)
    \/ NewYear

SpecRetry == Init /\ [][NextRetry]_vars

\* The pass on which the loop ends: the first that meets no duplicate key,
\* or the last pass.
LastPass(outs) ==
    CHOOSE k \in 1..MAX_RETRIES :
        /\ \A j \in 1..(k - 1) : outs[j] = "duplicate"
        /\ outs[k] # "duplicate" \/ k = MAX_RETRIES

\* The references drawn from this year's counter in the step.
Drawn ==
    counters'[currentYear]
        - (IF HasCounter(counters, currentYear) THEN counters[currentYear] ELSE 0)

InvitationComplete ==
    complaint # NoCase /\ HasInvitation(complaint)
    => /\ complaint.invitation.date # Undefined
       /\ complaint.invitation.time # Undefined
       /\ complaint.invitation.location # Undefined
====
